---------------------------- MODULE Spec2Model ----------------------------
(***************************************************************************)
(* The agent loop of forge: ChatService::chat spawns Live::chat_workflow,  *)
(* which streams provider chunks, dispatches tool calls and reports its    *)
(* progress over a bounded channel; UIService::chat consumes the channel,  *)
(* persists every context it carries and forwards the other events.        *)
(***************************************************************************)
EXTENDS Integers, Sequences, FiniteSets, TLC

(***************************************************************************)
(* Bounds of the model.                                                    *)
(***************************************************************************)
\* chunks the provider streams during one turn, over all sub-turns
MaxChunks == 4
\* provider requests (sub-turns) of one turn
MaxSubTurns == 3
\* actions one App handles
MaxActions == 4

(***************************************************************************)
(* Program constants.                                                      *)
(***************************************************************************)
\* tokio::sync::mpsc::channel(1)
ChannelCapacity == 1

(***************************************************************************)
(* Values.                                                                 *)
(***************************************************************************)
\* Option::None of a record-valued field
None == [t |-> "none"]
\* Option::None of a string-valued field (ToolName, ToolCallId)
NoName == "-"

Last(seq) == seq[Len(seq)]

\* names the model may put on a tool call; RegisteredTools are the keys of
\* Live::tools, "zzz" is a name the registry does not know
ToolNames == {"foo", "zzz"}
RegisteredTools == {"foo"}

\* an arguments fragment is a sequence of characters
Chars == {"{", "}", "1"}

RECURSIVE AllDigits(_)
AllDigits(s) ==
    IF s = <<>> THEN TRUE ELSE Head(s) = "1" /\ AllDigits(Tail(s))

RECURSIVE DigitsValue(_, _)
DigitsValue(s, acc) ==
    IF s = <<>> THEN acc ELSE DigitsValue(Tail(s), 10 * acc + 1)

\* serde_json::from_str on the concatenated fragments: the documents of the
\* alphabet are the empty object and the numbers; anything else is an error
FromStr(s) ==
    IF s = <<"{", "}">> THEN [ok |-> TRUE, value |-> [t |-> "object"]]
    ELSE IF s # <<>> /\ AllDigits(s)
         THEN [ok |-> TRUE, value |-> [t |-> "number", n |-> DigitsValue(s, 0)]]
         ELSE [ok |-> FALSE, value |-> None]

(***************************************************************************)
(* Context messages.                                                       *)
(***************************************************************************)
ContentMessage(role, content, tool_call) ==
    [kind |-> "content", role |-> role, content |-> content, tool_call |-> tool_call]

SystemMessage(content) == ContentMessage("System", content, None)
UserMessage(content) == ContentMessage("User", content, None)
AssistantMessage(content, tool_call) == ContentMessage("Assistant", content, tool_call)
ToolMessage(result) == [kind |-> "tool", result |-> result]

\* Request::add_message
add_message(messages, m) == Append(messages, m)

\* the system message is put in front of whatever the context holds
set_system_message_Insert(messages, content) ==
    <<SystemMessage(content)>> \o messages

\* Request::set_system_message
set_system_message(messages, content) ==
    IF messages = <<>>
    THEN add_message(messages, SystemMessage(content))
    ELSE IF messages[1].kind = "content"
         THEN IF messages[1].role = "System"
              THEN [messages EXCEPT ![1] = SystemMessage(content)]
              ELSE <<SystemMessage(content)>> \o messages
         ELSE messages


(***************************************************************************)
(* Tool calls.                                                             *)
(***************************************************************************)
ToolCallPart(name, call_id, arguments_part) ==
    [name |-> name, call_id |-> call_id, arguments_part |-> arguments_part]

ToolCallFull(name, call_id, arguments) ==
    [t |-> "call", name |-> name, call_id |-> call_id, arguments |-> arguments]

RECURSIVE FirstSet(_, _)
\* the first value of field f in the parts that is set, NoName when none is
FirstSet(parts, f) ==
    IF parts = <<>> THEN NoName
    ELSE IF Head(parts)[f] # NoName THEN Head(parts)[f]
         ELSE FirstSet(Tail(parts), f)

RECURSIVE Concat(_)
\* the argument fragments, concatenated in list order
Concat(parts) ==
    IF parts = <<>> THEN <<>>
    ELSE Head(parts).arguments_part \o Concat(Tail(parts))

\* ToolCall::try_from_parts
try_from_parts(parts) ==
    LET name == FirstSet(parts, "name")
        parsed == FromStr(Concat(parts))
    IN  IF name = NoName \/ ~parsed.ok
        THEN [ok |-> FALSE, call |-> None]
        ELSE [ok |-> TRUE,
              call |-> ToolCallFull(name, FirstSet(parts, "call_id"), parsed.value)]

(***************************************************************************)
(* Tool registry and dispatch.                                             *)
(***************************************************************************)
\* what the invocation of a registered tool may do with a valid input
ToolOutcomes == {"ok", "err"}

\* JsonTool::call: the input is deserialized into the tool's input type (an
\* object), the tool runs, and both of its outcomes are rendered as XML
JsonToolCall(input, outcome) ==
    IF input.t # "object"
    THEN [ok |-> FALSE, text |-> [msg |-> "invalid type", names |-> {}]]
    ELSE IF outcome = "ok"
         THEN [ok |-> TRUE, text |-> [msg |-> "xml:success", names |-> {}]]
         ELSE [ok |-> TRUE, text |-> [msg |-> "xml:error", names |-> {}]]

\* the message of the lookup failure: it names the tool that was asked for
NoSuchTool(name) == [msg |-> "No such tool found", names |-> {name}]

\* Live::call of the tool service (the registry lookup)
LiveCall(name, input, outcome) ==
    IF name \in RegisteredTools
    THEN JsonToolCall(input, outcome)
    ELSE [ok |-> FALSE, text |-> NoSuchTool(name)]

\* ToolResult::from that forgets the call id
ToolResultFrom_NoCallId(call) ==
    [name |-> call.name, call_id |-> NoName,
     content |-> [msg |-> "", names |-> {}], is_error |-> FALSE]

\* ToolResult::from(ToolCallFull)
ToolResultFrom(call) ==
    [name |-> call.name, call_id |-> call.call_id,
     content |-> [msg |-> "", names |-> {}], is_error |-> FALSE]

\* ToolResult::success
success(result, content) == [result EXCEPT !.content = content, !.is_error = FALSE]

\* ToolResult::failure
failure(result, content) == [result EXCEPT !.content = content, !.is_error = TRUE]

\* ToolService::call as chat_workflow uses it: the outcome of the lookup and
\* invocation wrapped into the ToolResult of the call
ToolServiceCall(call, outcome) ==
    LET output == LiveCall(call.name, call.arguments, outcome)
    IN  IF output.ok
        THEN success(ToolResultFrom(call), output.text)
        ELSE failure(ToolResultFrom(call), output.text)

(***************************************************************************)
(* Provider chunks.                                                        *)
(***************************************************************************)
ChatCompletionMessage(content, tool_call, finish_reason) ==
    [content |-> content, tool_call |-> tool_call, finish_reason |-> finish_reason]

\* the chunks the provider may stream: text, finish reasons, a call of foo
\* split over two parts, a whole call of an unknown tool, a whole call of foo
\* whose arguments are a number, and a finish that carries text and a part
ChunkSet ==
    { ChatCompletionMessage(<<"t">>, <<>>, "none"),
      ChatCompletionMessage(<<>>, <<>>, "Stop"),
      ChatCompletionMessage(<<"t">>, <<>>, "Stop"),
      ChatCompletionMessage(<<"t">>, <<ToolCallPart("foo", "c1", <<"{">>)>>, "none"),
      ChatCompletionMessage(<<>>, <<ToolCallPart(NoName, NoName, <<"}">>)>>, "none"),
      ChatCompletionMessage(<<>>, <<>>, "ToolCalls"),
      ChatCompletionMessage(<<>>, <<ToolCallPart("zzz", "c2", <<"{", "}">>)>>, "ToolCalls"),
      ChatCompletionMessage(<<>>, <<ToolCallPart("foo", NoName, <<"1">>)>>, "ToolCalls"),
      ChatCompletionMessage(<<"t">>, <<ToolCallPart(NoName, NoName, <<"}">>)>>, "ToolCalls") }

(***************************************************************************)
(* Events of the chat stream (ChatResponse).                               *)
(***************************************************************************)
Text(content) == [type |-> "Text", text |-> content]
ToolUseDetected(name) == [type |-> "ToolUseDetected", name |-> name]
ToolCallStart(call) == [type |-> "ToolCallStart", call |-> call]
ToolUseEnd(result) == [type |-> "ToolUseEnd", result |-> result]
ModifyConversation(context) == [type |-> "ModifyConversation", context |-> context]
Complete == [type |-> "Complete"]
ErrorEvent == [type |-> "Error"]


(***************************************************************************)
(* The application state machine of app.rs: App::run feeds one action to   *)
(* State and returns the commands for the executor.                        *)
(***************************************************************************)
\* assistant text is a sequence of tokens: the tags of a call of foo written
\* as XML, its argument values, and plain text
OpenTag == "<foo>"
CloseTag == "</foo>"
ArgumentValues == {"a", "b"}

RECURSIVE IndexOf(_, _, _)
\* the first position from i on where the token stands, 0 when there is none
IndexOf(text, token, i) ==
    IF i > Len(text) THEN 0
    ELSE IF text[i] = token THEN i ELSE IndexOf(text, token, i + 1)

\* the argument values among the tokens
IsArgumentValue(token) == token \in ArgumentValues

RECURSIVE MatchesFrom(_, _)
\* the calls written in the text from position i on, in the order they are
\* written: an opening tag, the argument values, the next closing tag
MatchesFrom(text, i) ==
    LET open == IndexOf(text, OpenTag, i)
        close == IF open = 0 THEN 0 ELSE IndexOf(text, CloseTag, open + 1)
    IN  IF close = 0 THEN <<>>
        ELSE <<ToolCallFull("foo", NoName,
                   [t |-> "object",
                    args |-> SelectSeq(SubSeq(text, open + 1, close - 1), IsArgumentValue)])>>
                \o MatchesFrom(text, close + 1)

\* ToolCall::try_from_xml
try_from_xml(text) == MatchesFrom(text, 1)

\* Command
ToolCallCommand(call) == [type |-> "ToolCall", call |-> call]
UserMessageCommand(response) == [type |-> "UserMessage", message |-> response]
AssistantMessageCommand(messages) == [type |-> "AssistantMessage", request |-> messages]
PersistCommand(app, action) == [type |-> "Persist", app |-> app, action |-> action]

\* ChatResponse of app.rs
ToolUseStart(name) == [type |-> "ToolUseStart", tool_name |-> name]

\* Action
AssistantResponse(response) == [type |-> "AssistantResponse", response |-> response]
ToolResponse(result) == [type |-> "ToolResponse", result |-> result]
UserMessageAction(content) == [type |-> "UserMessage", content |-> content]

\* State::new
NewState ==
    [user_objective |-> FALSE, assistant_buffer |-> <<>>, tool_call_part |-> <<>>,
     request |-> <<>>]

\* State::on_finish_reason that takes the first call written in the text
on_finish_reason_FirstMatch(state, finish_reason) ==
    LET assembled == try_from_parts(state.tool_call_part)
        calls == try_from_xml(state.assistant_buffer)
        native == finish_reason = "ToolCalls"
    IN  IF native /\ ~assembled.ok
        THEN [ok |-> FALSE, state |-> state, commands |-> <<>>]
        ELSE [ok |-> TRUE,
              state |-> [state EXCEPT
                           !.tool_call_part = IF native THEN <<>> ELSE @,
                           !.request = add_message(state.request,
                                          AssistantMessage(state.assistant_buffer,
                                              IF native THEN assembled.call ELSE None)),
                           !.assistant_buffer = <<>>],
              commands |->
                  (IF native THEN <<ToolCallCommand(assembled.call)>> ELSE <<>>)
                  \o (IF finish_reason = "Stop" /\ calls # <<>>
                      THEN <<ToolCallCommand(Head(calls)),
                             UserMessageCommand(ToolUseStart(Head(calls).name))>>
                      ELSE <<>>)]

\* State::on_finish_reason
on_finish_reason(state, finish_reason) ==
    LET assembled == try_from_parts(state.tool_call_part)
        calls == try_from_xml(state.assistant_buffer)
        native == finish_reason = "ToolCalls"
    IN  IF native /\ ~assembled.ok
        THEN [ok |-> FALSE, state |-> state, commands |-> <<>>]
        ELSE [ok |-> TRUE,
              state |-> [state EXCEPT
                           !.tool_call_part = IF native THEN <<>> ELSE @,
                           !.request = add_message(state.request,
                                          AssistantMessage(state.assistant_buffer,
                                              IF native THEN assembled.call ELSE None)),
                           !.assistant_buffer = <<>>],
              commands |->
                  (IF native THEN <<ToolCallCommand(assembled.call)>> ELSE <<>>)
                  \o (IF finish_reason = "Stop" /\ calls # <<>>
                      THEN <<ToolCallCommand(Last(calls)),
                             UserMessageCommand(ToolUseStart(Last(calls).name))>>
                      ELSE <<>>)]

\* State::on_assistant_response
on_assistant_response(state, response) ==
    LET too_call_start ==
            IF response.tool_call # <<>> /\ state.tool_call_part = <<>>
            THEN <<UserMessageCommand(ToolUseStart(Head(response.tool_call).name))>>
            ELSE <<>>
        buffered == [state EXCEPT
                       !.assistant_buffer = @ \o response.content,
                       !.tool_call_part = @ \o response.tool_call]
        finish == IF response.finish_reason # "none"
                  THEN on_finish_reason(buffered, response.finish_reason)
                  ELSE [ok |-> TRUE, state |-> buffered, commands |-> <<>>]
        text == IF response.content # <<>>
                THEN <<UserMessageCommand(Text(response.content))>>
                ELSE <<>>
    IN  IF finish.ok
        THEN [ok |-> TRUE, state |-> finish.state,
              commands |-> too_call_start \o finish.commands \o text]
        ELSE [ok |-> FALSE, state |-> finish.state, commands |-> <<>>]

\* State::on_tool_response
on_tool_response(state, tool_result) ==
    LET next == [state EXCEPT !.request = add_message(state.request, ToolMessage(tool_result))]
    IN  [ok |-> TRUE, state |-> next,
         commands |-> <<AssistantMessageCommand(next.request),
                        UserMessageCommand(ToolUseEnd(tool_result))>>]

\* State::on_user_message, for a prompt that names no file
on_user_message(state, content) ==
    LET next == [state EXCEPT !.user_objective = TRUE,
                              !.request = add_message(state.request, UserMessage(content))]
    IN  [ok |-> TRUE, state |-> next,
         commands |-> <<AssistantMessageCommand(next.request)>>]

\* App::run that pushes the Persist command after the handler's commands
run_PersistLast(state, action) ==
    LET handled ==
            CASE action.type = "UserMessage" -> on_user_message(state, action.content)
              [] action.type = "AssistantResponse" ->
                    on_assistant_response(state, action.response)
              [] action.type = "ToolResponse" -> on_tool_response(state, action.result)
    IN  IF handled.ok
        THEN [handled EXCEPT
                !.commands = @ \o <<PersistCommand(handled.state, action)>>]
        ELSE handled

\* App::run: the handler of the action, and the Persist command put first
run(state, action) ==
    LET handled ==
            CASE action.type = "UserMessage" -> on_user_message(state, action.content)
              [] action.type = "AssistantResponse" ->
                    on_assistant_response(state, action.response)
              [] action.type = "ToolResponse" -> on_tool_response(state, action.result)
    IN  IF handled.ok
        THEN [handled EXCEPT
                !.commands = <<PersistCommand(handled.state, action)>> \o @]
        ELSE handled


(***************************************************************************)
(* State.                                                                  *)
(***************************************************************************)
VARIABLES
    conversations,              \* the store: conversation id -> row
    pc,                         \* where the spawned chat task stands
    request,                    \* chat_workflow: the working context (messages)
    tool_call_parts,            \* chat_workflow: parts buffered in this sub-turn
    some_tool_call,             \* chat_workflow: the call assembled in this sub-turn
    some_tool_result,           \* chat_workflow: its result
    assistant_message_content,  \* chat_workflow: text buffered in this sub-turn
    message,                    \* chat_workflow: the chunk being handled
    llm_calls,                  \* the contexts the provider was asked to complete
    tool_calls,                 \* the calls the tool service was asked to run
    nchunks,                    \* chunks streamed so far
    sent,                       \* everything sent on tx, in order
    received,                   \* how many of them the facade has taken from rx
    delivered,                  \* what the facade has yielded to its caller
    planned,                    \* a scripted provider: the call it streams, its chunks, how many were read
    app,                        \* App::state
    action,                     \* the action App::run handled last
    commands,                   \* what that run returned
    runs,                       \* how many actions the App has handled
    ui_pc,                      \* where UIService::chat stands
    chat_request,               \* UIService::chat: the request, with its conversation id
    is_new,                     \* UIService::chat: the conversation was created for the request
    stream_head,                \* UIService::chat: what was chained before the chat stream
    complete_response,          \* UIService::chat: the text collected from the title stream
    title_pc,                   \* where the task behind the title stream stands
    title_request,              \* its working context
    title_sent,                 \* everything it sent on its channel, in order
    title_received,             \* how many of them UIService::chat has taken
    table,                      \* the conversations table: id -> raw row
    clock,                      \* Utc::now()
    reply,                      \* what the last call of the repository returned
    cache,                      \* the parameters cache: model id -> Parameters
    in_flight,                  \* the model ids the cache is computing a value for
    callers,                    \* the calls of parameters(model): where each stands
    upstream,                   \* the parameters requests made to the provider
    tools,                      \* tool_service::Live::tools, in the order its values iterate
    listings,                   \* what the calls of list() returned
    rendered,                   \* the system prompts rendered, with what they were rendered from
    processes,                  \* the child processes the shell tool has spawned
    shell_reply,                \* the last call of the shell tool and its result
    files,                      \* the file system: path of a file -> content
    dirs,                       \* the file system: the directories
    fs_reply,                   \* the last call of the file-write tool and its result
    readable,                   \* the paths FileReadService can read
    prompt_reply                \* the last call of get_user_prompt and its result

workflow == <<request, tool_call_parts, some_tool_call, some_tool_result,
              assistant_message_content, message>>
history == <<llm_calls, tool_calls, nchunks>>
facade == <<conversations, received, delivered>>
\* the state of the components a specification leaves alone
application == <<app, action, commands, runs>>
title_stream == <<title_pc, title_request, title_sent, title_received>>
ui == <<ui_pc, chat_request, is_new, complete_response, title_stream>>
repository == <<table, clock, reply>>
parameters_cache == <<cache, in_flight, callers, upstream>>
registry == <<tools, listings, rendered>>
shell == <<processes, shell_reply>>
file_system == <<files, dirs, fs_reply>>
user_prompts == <<readable, prompt_reply>>
tooling == <<registry, shell, file_system, user_prompts>>
services == <<repository, parameters_cache, tooling>>
elsewhere == <<planned, application, ui, stream_head, services>>
vars == <<pc, workflow, history, sent, facade, elsewhere>>

\* the conversation of the turn, and the prompts rendered for it
ConversationId == "id1"
\* the ids ConversationId::generate may return, and an id no row has
ConversationIds == {"id1", "id2", "id3"}
UnknownId == "id9"
SystemPrompt == <<"s">>
UserPrompt == <<"u">>

\* a row of the conversations table
Row(content) == [content |-> content, archived |-> FALSE, title |-> None]

\* the title column of a row that has a title
StoredTitle(title) == [t |-> "some", value |-> title]

\* ConversationRepository::set_conversation_title
set_conversation_title(rows, id, title) ==
    [rows EXCEPT ![id].title = StoredTitle(title)]

\* what the conversation may hold when the turn starts: nothing, or the
\* context an earlier turn left behind
StoredContexts ==
    { <<>>,
      <<SystemMessage(SystemPrompt), UserMessage(UserPrompt),
        AssistantMessage(<<"t">>, None)>> }

\* UIService::chat has returned the stream of a turn on the conversation
Streaming(id) ==
    /\ ui_pc = "stream"
    /\ chat_request = [conversation_id |-> id]
    /\ is_new = FALSE
    /\ stream_head = <<>>
    /\ complete_response = <<>>
    /\ title_pc = "idle"
    /\ title_request = <<>>
    /\ title_sent = <<>>
    /\ title_received = 0

\* no tool registry was built, no tool was called and no prompt was rendered
NoTooling ==
    /\ tools = <<>>
    /\ listings = <<>>
    /\ rendered = <<>>
    /\ processes = <<>>
    /\ shell_reply = None
    /\ files = <<>>
    /\ dirs = {}
    /\ fs_reply = None
    /\ readable = {}
    /\ prompt_reply = None

\* the repository has no row and was not called; no call of parameters(model)
\* was made
NoServices ==
    /\ NoTooling
    /\ table = <<>>
    /\ clock = 0
    /\ reply = None
    /\ cache = <<>>
    /\ in_flight = {}
    /\ callers = <<>>
    /\ upstream = <<>>

\* no App is running
NoApp ==
    /\ app = NewState
    /\ action = None
    /\ commands = [ok |-> TRUE, commands |-> <<>>]
    /\ runs = 0

Init ==
    /\ conversations \in {[id \in {ConversationId} |-> Row(c)] : c \in StoredContexts}
    /\ pc = "idle"
    /\ request = <<>>
    /\ tool_call_parts = <<>>
    /\ some_tool_call = None
    /\ some_tool_result = None
    /\ assistant_message_content = <<>>
    /\ message = None
    /\ llm_calls = <<>>
    /\ tool_calls = <<>>
    /\ nchunks = 0
    /\ sent = <<>>
    /\ received = 0
    /\ delivered = <<>>
    /\ planned = None
    /\ NoApp
    /\ NoServices
    /\ Streaming(ConversationId)

\* tx.send(..).await: completes when the channel has room; it is an Err
\* when the receiver was dropped
Send(e) ==
    /\ ui_pc # "dropped"
    /\ Len(sent) - received < ChannelCapacity
    /\ sent' = Append(sent, e)

(***************************************************************************)
(* UIService::chat and ChatService::chat: the turn is set up.              *)
(***************************************************************************)
\* ChatService::chat: the context the workflow starts from
InitialRequest(context) ==
    add_message(set_system_message(context, SystemPrompt), UserMessage(UserPrompt))

Chat ==
    /\ pc = "idle"
    /\ request' = InitialRequest(conversations[ConversationId].content)
    /\ pc' = "loop"
    /\ UNCHANGED <<tool_call_parts, some_tool_call, some_tool_result,
                   assistant_message_content, message, history, sent, facade>>
    /\ UNCHANGED elsewhere

(***************************************************************************)
(* Live::chat_workflow.                                                    *)
(***************************************************************************)
\* top of the loop, with the context sent before the provider is asked
ProviderChat_SendsContext ==
    /\ pc = "loop"
    /\ Len(llm_calls) < MaxSubTurns
    /\ Send(ModifyConversation(request))
    /\ tool_call_parts' = <<>>
    /\ some_tool_call' = None
    /\ some_tool_result' = None
    /\ assistant_message_content' = <<>>
    /\ llm_calls' = Append(llm_calls, request)
    /\ \/ pc' = "next"
       \/ pc' = "error"
    /\ UNCHANGED <<request, message, tool_calls, nchunks, facade>>
    /\ UNCHANGED elsewhere

\* top of the loop: the buffers are created and the provider is asked
ProviderChat ==
    /\ pc = "loop"
    /\ Len(llm_calls) < MaxSubTurns
    /\ tool_call_parts' = <<>>
    /\ some_tool_call' = None
    /\ some_tool_result' = None
    /\ assistant_message_content' = <<>>
    /\ llm_calls' = Append(llm_calls, request)
    /\ \/ pc' = "next"
       \/ pc' = "error"
    /\ UNCHANGED <<request, message, tool_calls, nchunks, sent, facade>>
    /\ UNCHANGED elsewhere

\* response.next(): a chunk
NextChunk ==
    /\ pc = "next"
    /\ nchunks < MaxChunks
    /\ \E chunk \in ChunkSet : message' = chunk
    /\ nchunks' = nchunks + 1
    /\ pc' = "content"
    /\ UNCHANGED <<request, tool_call_parts, some_tool_call, some_tool_result,
                   assistant_message_content, llm_calls, tool_calls, sent, facade>>
    /\ UNCHANGED elsewhere

\* response.next(): an error chunk, which chunk? returns from the workflow
NextError ==
    /\ pc = "next"
    /\ pc' = "error"
    /\ UNCHANGED <<workflow, history, sent, facade>>
    /\ UNCHANGED elsewhere

\* response.next(): the stream is over
NextNone ==
    /\ pc = "next"
    /\ pc' = "assistant"
    /\ UNCHANGED <<workflow, history, sent, facade>>
    /\ UNCHANGED elsewhere

\* the chunk's content is buffered and sent as Text
OnContent ==
    /\ pc = "content"
    /\ IF message.content # <<>>
       THEN /\ assistant_message_content' = assistant_message_content \o message.content
            /\ Send(Text(message.content))
       ELSE UNCHANGED <<assistant_message_content, sent>>
    /\ pc' = "parts"
    /\ UNCHANGED <<request, tool_call_parts, some_tool_call, some_tool_result,
                   message, history, facade>>
    /\ UNCHANGED elsewhere

\* the chunk's first tool call part is buffered; the first part of the
\* sub-turn announces the tool when it names one
OnToolCallPart ==
    /\ pc = "parts"
    /\ IF message.tool_call # <<>>
       THEN LET tool_part == Head(message.tool_call)
            IN  /\ IF tool_call_parts = <<>> /\ tool_part.name # NoName
                   THEN Send(ToolUseDetected(tool_part.name))
                   ELSE UNCHANGED sent
                /\ tool_call_parts' = Append(tool_call_parts, tool_part)
       ELSE UNCHANGED <<tool_call_parts, sent>>
    /\ pc' = "finish"
    /\ UNCHANGED <<request, some_tool_call, some_tool_result,
                   assistant_message_content, message, history, facade>>
    /\ UNCHANGED elsewhere

\* a ToolCalls finish assembles the call and announces it; a failed assembly
\* returns from the workflow
OnFinishReason ==
    /\ pc = "finish"
    /\ IF message.finish_reason = "ToolCalls"
       THEN LET assembled == try_from_parts(tool_call_parts)
            IN  IF assembled.ok
                THEN /\ some_tool_call' = assembled.call
                     /\ Send(ToolCallStart(assembled.call))
                     /\ pc' = "call"
                ELSE /\ pc' = "error"
                     /\ UNCHANGED <<some_tool_call, sent>>
       ELSE /\ pc' = "next"
            /\ UNCHANGED <<some_tool_call, sent>>
    /\ UNCHANGED <<request, tool_call_parts, some_tool_result,
                   assistant_message_content, message, history, facade>>
    /\ UNCHANGED elsewhere

\* self.tool.call(tool_call)
ToolCall ==
    /\ pc = "call"
    /\ \E outcome \in ToolOutcomes :
          some_tool_result' = ToolServiceCall(some_tool_call, outcome)
    /\ tool_calls' = Append(tool_calls, some_tool_call)
    /\ pc' = "end"
    /\ UNCHANGED <<request, tool_call_parts, some_tool_call,
                   assistant_message_content, message, llm_calls, nchunks,
                   sent, facade>>
    /\ UNCHANGED elsewhere

\* the tool use end message is never sent
SendToolUseEnd_Missing ==
    /\ pc = "end"
    /\ pc' = "next"
    /\ UNCHANGED <<workflow, history, sent, facade>>
    /\ UNCHANGED elsewhere

\* the tool use end message
SendToolUseEnd ==
    /\ pc = "end"
    /\ Send(ToolUseEnd(some_tool_result))
    /\ pc' = "next"
    /\ UNCHANGED <<workflow, history, facade>>
    /\ UNCHANGED elsewhere

\* after the stream, with a loop that never breaks
AddAssistant_NoBreak ==
    /\ pc = "assistant"
    /\ request' = add_message(request,
                     AssistantMessage(assistant_message_content, some_tool_call))
    /\ Send(ModifyConversation(request'))
    /\ pc' = IF some_tool_result # None THEN "tool" ELSE "loop"
    /\ UNCHANGED <<tool_call_parts, some_tool_call, some_tool_result,
                   assistant_message_content, message, history, facade>>
    /\ UNCHANGED elsewhere

\* after the stream: the assistant message joins the context
AddAssistant ==
    /\ pc = "assistant"
    /\ request' = add_message(request,
                     AssistantMessage(assistant_message_content, some_tool_call))
    /\ Send(ModifyConversation(request'))
    /\ pc' = IF some_tool_result # None THEN "tool" ELSE "complete"
    /\ UNCHANGED <<tool_call_parts, some_tool_call, some_tool_result,
                   assistant_message_content, message, history, facade>>
    /\ UNCHANGED elsewhere

\* a tool result joins the context and no event tells of it
AddToolResult_NoEvent ==
    /\ pc = "tool"
    /\ request' = add_message(request, ToolMessage(some_tool_result))
    /\ pc' = "loop"
    /\ UNCHANGED <<tool_call_parts, some_tool_call, some_tool_result,
                   assistant_message_content, message, history, sent, facade>>
    /\ UNCHANGED elsewhere

\* the tool result is appended only after the context was sent
AddToolResult_SendBeforeAppend ==
    /\ pc = "tool"
    /\ request' = add_message(request, ToolMessage(some_tool_result))
    /\ Send(ModifyConversation(request))
    /\ pc' = "loop"
    /\ UNCHANGED <<tool_call_parts, some_tool_call, some_tool_result,
                   assistant_message_content, message, history, facade>>
    /\ UNCHANGED elsewhere

\* a tool result joins the context and the loop goes round
AddToolResult ==
    /\ pc = "tool"
    /\ request' = add_message(request, ToolMessage(some_tool_result))
    /\ Send(ModifyConversation(request'))
    /\ pc' = "loop"
    /\ UNCHANGED <<tool_call_parts, some_tool_call, some_tool_result,
                   assistant_message_content, message, history, facade>>
    /\ UNCHANGED elsewhere

(***************************************************************************)
(* The task ChatService::chat spawns around the workflow.                  *)
(***************************************************************************)
\* Err(e) => tx.send(Err(e))
SendError ==
    /\ pc = "error"
    /\ Send(ErrorEvent)
    /\ pc' = "complete"
    /\ UNCHANGED <<workflow, history, facade>>
    /\ UNCHANGED elsewhere

\* tx.send(Ok(ChatResponse::Complete)), then tx is dropped
SendComplete ==
    /\ pc = "complete"
    /\ Send(Complete)
    /\ pc' = "done"
    /\ UNCHANGED <<workflow, history, facade>>
    /\ UNCHANGED elsewhere

(***************************************************************************)
(* UIService::chat: the stream the caller polls.                           *)
(***************************************************************************)
\* ConversationRepository::set_conversation for a given id
set_conversation(rows, context, id) ==
    IF id \in DOMAIN rows
    THEN [rows EXCEPT ![id].content = context]
    ELSE [i \in DOMAIN rows \cup {id} |->
            IF i = id THEN Row(context) ELSE rows[i]]

\* the stream filters its contexts out without storing them
Poll_NoPersist ==
    /\ ui_pc = "stream"
    /\ IF stream_head # <<>>
       THEN /\ delivered' = Append(delivered, Head(stream_head))
            /\ stream_head' = Tail(stream_head)
            /\ UNCHANGED <<conversations, received>>
       ELSE /\ received < Len(sent)
            /\ LET item == sent[received + 1]
               IN  IF item.type = "ModifyConversation"
                   THEN UNCHANGED delivered
                   ELSE delivered' = Append(delivered, item)
            /\ received' = received + 1
            /\ UNCHANGED <<conversations, stream_head>>
    /\ UNCHANGED <<pc, workflow, history, sent, planned, application, ui, services>>

\* the stream stores every context as a conversation of its own
Poll_NewRow ==
    /\ ui_pc = "stream"
    /\ IF stream_head # <<>>
       THEN /\ delivered' = Append(delivered, Head(stream_head))
            /\ stream_head' = Tail(stream_head)
            /\ UNCHANGED <<conversations, received>>
       ELSE /\ received < Len(sent)
            /\ LET item == sent[received + 1]
               IN  IF item.type = "ModifyConversation"
                   THEN /\ \E id \in ConversationIds \ DOMAIN conversations :
                              conversations' =
                                  set_conversation(conversations, item.context, id)
                        /\ UNCHANGED delivered
                   ELSE /\ delivered' = Append(delivered, item)
                        /\ UNCHANGED conversations
            /\ received' = received + 1
            /\ UNCHANGED stream_head
    /\ UNCHANGED <<pc, workflow, history, sent, planned, application, ui, services>>

\* one item of the stream: what was chained before the chat stream comes
\* first; a context of the chat stream is stored under the request's
\* conversation id and filtered out, anything else is yielded
Poll ==
    /\ ui_pc = "stream"
    /\ IF stream_head # <<>>
       THEN /\ delivered' = Append(delivered, Head(stream_head))
            /\ stream_head' = Tail(stream_head)
            /\ UNCHANGED <<conversations, received>>
       ELSE /\ received < Len(sent)
            /\ LET item == sent[received + 1]
               IN  IF item.type = "ModifyConversation"
                   THEN /\ conversations' =
                              set_conversation(conversations, item.context,
                                               chat_request.conversation_id)
                        /\ UNCHANGED delivered
                   ELSE /\ delivered' = Append(delivered, item)
                        /\ UNCHANGED conversations
            /\ received' = received + 1
            /\ UNCHANGED stream_head
    /\ UNCHANGED <<pc, workflow, history, sent, planned, application, ui, services>>

Next ==
    \/ Chat
    \/ ProviderChat
    \/ NextChunk
    \/ NextError
    \/ NextNone
    \/ OnContent
    \/ OnToolCallPart
    \/ OnFinishReason
    \/ ToolCall
    \/ SendToolUseEnd
    \/ AddAssistant
    \/ AddToolResult
    \/ SendError
    \/ SendComplete
    \/ Poll

Spec == Init /\ [][Next]_vars


(***************************************************************************)
(* The chunk loop of chat_workflow under a scripted provider: a tool call  *)
(* is serialized, its arguments are split into fragments, and the parts    *)
(* are distributed over the chunks of one response.                        *)
(***************************************************************************)
\* the longest serialized arguments of a scripted call
MaxArguments == 3

RECURSIVE Compositions(_)
\* the ways of cutting a sequence of n elements into consecutive groups:
\* the sizes of the groups, in order
Compositions(n) ==
    IF n = 0 THEN {<<>>}
    ELSE UNION {{<<k>> \o c : c \in Compositions(n - k)} : k \in 1..n}

RECURSIVE Group(_, _)
\* the sequence cut into groups of the given sizes
Group(seq, sizes) ==
    IF sizes = <<>> THEN <<>>
    ELSE <<SubSeq(seq, 1, Head(sizes))>>
            \o Group(SubSeq(seq, Head(sizes) + 1, Len(seq)), Tail(sizes))

\* the serialized arguments of the scripted calls: an object and numbers
SerializedArguments ==
    {<<"{", "}">>} \cup {[i \in 1..n |-> "1"] : n \in 1..MaxArguments}

\* the calls the scripted provider makes
ScriptedCalls ==
    {[name |-> "foo", call_id |-> id, arguments |-> a] :
        id \in {"c1", NoName}, a \in SerializedArguments}

\* the parts of a call whose arguments are split into the given fragments:
\* name and call_id come with the first part only
PartsOf(call, fragments) ==
    [i \in DOMAIN fragments |->
        IF i = 1 THEN ToolCallPart(call.name, call.call_id, fragments[i])
        ELSE ToolCallPart(NoName, NoName, fragments[i])]

\* a response that carries the groups of parts chunk by chunk; the ToolCalls
\* finish comes with the last of them or in a chunk of its own
ChunksOf(groups, own_finish) ==
    IF own_finish
    THEN [i \in DOMAIN groups |-> ChatCompletionMessage(<<>>, groups[i], "none")]
            \o <<ChatCompletionMessage(<<>>, <<>>, "ToolCalls")>>
    ELSE [i \in DOMAIN groups |->
            ChatCompletionMessage(<<>>, groups[i],
                IF i = Len(groups) THEN "ToolCalls" ELSE "none")]

\* every scripted call, every split of its arguments, every distribution of
\* the parts over chunks
Scripts ==
    UNION {UNION {{[call |-> call, read |-> 0,
                    chunks |-> ChunksOf(Group(PartsOf(call, Group(call.arguments, split)), spread), own_finish)] :
                      spread \in Compositions(Len(split)), own_finish \in BOOLEAN} :
                  split \in Compositions(Len(call.arguments))} :
           call \in ScriptedCalls}

\* the workflow has asked the provider and is about to read the response
PartsInit ==
    /\ conversations = [id \in {ConversationId} |-> Row(<<>>)]
    /\ pc = "next"
    /\ request = InitialRequest(<<>>)
    /\ tool_call_parts = <<>>
    /\ some_tool_call = None
    /\ some_tool_result = None
    /\ assistant_message_content = <<>>
    /\ message = None
    /\ llm_calls = <<InitialRequest(<<>>)>>
    /\ tool_calls = <<>>
    /\ nchunks = 0
    /\ sent = <<>>
    /\ received = 0
    /\ delivered = <<>>
    /\ planned \in Scripts
    /\ NoApp
    /\ NoServices
    /\ Streaming(ConversationId)

\* response.next(): the next chunk of the script
NextScripted ==
    /\ pc = "next"
    /\ planned.read < Len(planned.chunks)
    /\ message' = planned.chunks[planned.read + 1]
    /\ planned' = [planned EXCEPT !.read = planned.read + 1]
    /\ nchunks' = nchunks + 1
    /\ pc' = "content"
    /\ UNCHANGED <<request, tool_call_parts, some_tool_call, some_tool_result,
                   assistant_message_content, llm_calls, tool_calls, sent, facade>>
    /\ UNCHANGED <<application, ui, stream_head, services>>

PartsNext ==
    \/ NextScripted
    \/ OnContent
    \/ OnToolCallPart
    \/ OnFinishReason
    \/ ToolCall
    \/ SendToolUseEnd
    \/ SendError
    \/ Poll

PartsSpec == PartsInit /\ [][PartsNext]_vars


(***************************************************************************)
(* App::run, driven by the actions its executor feeds it.                  *)
(***************************************************************************)
\* the components of the agent loop at rest
Idle ==
    /\ pc = "idle"
    /\ request = <<>>
    /\ tool_call_parts = <<>>
    /\ some_tool_call = None
    /\ some_tool_result = None
    /\ assistant_message_content = <<>>
    /\ message = None
    /\ llm_calls = <<>>
    /\ tool_calls = <<>>
    /\ nchunks = 0
    /\ sent = <<>>
    /\ received = 0
    /\ delivered = <<>>

\* the responses the provider may stream to the App: calls of foo written as
\* XML and cut at different places, plain text, and a native call in parts
Responses ==
    { ChatCompletionMessage(<<OpenTag, "a">>, <<>>, "none"),
      ChatCompletionMessage(<<CloseTag>>, <<>>, "none"),
      ChatCompletionMessage(<<CloseTag, OpenTag, "b">>, <<>>, "none"),
      ChatCompletionMessage(<<CloseTag>>, <<>>, "Stop"),
      ChatCompletionMessage(<<OpenTag, "b", CloseTag>>, <<>>, "Stop"),
      ChatCompletionMessage(<<"t">>, <<>>, "Stop"),
      ChatCompletionMessage(<<"t">>, <<ToolCallPart("foo", "c1", <<"{">>)>>, "none"),
      ChatCompletionMessage(<<>>, <<ToolCallPart(NoName, NoName, <<"}">>)>>, "ToolCalls") }

AppInit ==
    /\ conversations = [id \in {ConversationId} |-> Row(<<>>)]
    /\ Idle
    /\ planned = None
    /\ NoApp
    /\ NoServices
    /\ Streaming(ConversationId)

\* the components other than the App
outside_app == <<pc, workflow, history, sent, facade, planned, ui, stream_head, services>>

\* App::run(action)
Run(a) ==
    /\ LET returned == run(app, a)
       IN  /\ app' = returned.state
           /\ commands' = [ok |-> returned.ok, commands |-> returned.commands]
    /\ action' = a
    /\ runs' = runs + 1
    /\ UNCHANGED outside_app

\* Action::UserMessage
RunUserMessage ==
    /\ runs < MaxActions
    /\ Run(UserMessageAction(UserPrompt))

\* Action::AssistantResponse: a chunk of the provider's response
RunAssistantResponse ==
    /\ runs < MaxActions
    /\ \E response \in Responses : Run(AssistantResponse(response))

\* Action::ToolResponse: the result of a call the last run asked for
RunToolResponse ==
    /\ runs < MaxActions
    /\ \E i \in DOMAIN commands.commands :
          /\ commands.commands[i].type = "ToolCall"
          /\ \E outcome \in ToolOutcomes :
                Run(ToolResponse(ToolServiceCall(commands.commands[i].call, outcome)))

AppNext ==
    \/ RunUserMessage
    \/ RunAssistantResponse
    \/ RunToolResponse

AppSpec == AppInit /\ [][AppNext]_vars


(***************************************************************************)
(* UIService::chat in front of a chat service: the conversation is         *)
(* resolved or created, the chat stream is opened, and for a new           *)
(* conversation a second chat stream is read to its end for the title      *)
(* before the stream is handed to the caller.  The chat service is any     *)
(* implementation of ChatService: a task that sends events on its channel  *)
(* and closes it with Complete.                                            *)
(***************************************************************************)
\* events a chat task sends before it completes
MaxEvents == 3

\* the prompts of the title generator, and the text it may answer
TitleSystemPrompt == <<"ts">>
TitleUserPrompt == <<"tu">>
TitleOpen == "<title>"
TitleClose == "</title>"
TitleTexts == {<<TitleOpen, "T">>, <<TitleClose>>, <<"T">>}
Untitled == <<"Untitled">>

\* TagParser::parse(text).get("title"): the text between the opening and the
\* closing tag, if the tags are there
TagParserGet(text) ==
    LET open == IndexOf(text, TitleOpen, 1)
        close == IF open = 0 THEN 0 ELSE IndexOf(text, TitleClose, open + 1)
    IN  IF close = 0 THEN [some |-> FALSE, value |-> <<>>]
        ELSE [some |-> TRUE, value |-> SubSeq(text, open + 1, close - 1)]

\* ChatResponse::ConversationStarted
ConversationStarted(id, title) ==
    [type |-> "ConversationStarted", conversation_id |-> id, title |-> title]

\* the context the title chat starts from
InitialTitleRequest ==
    add_message(set_system_message(<<>>, TitleSystemPrompt), UserMessage(TitleUserPrompt))

\* what the workflow of a chat task may send next, given its working context
WorkflowItems(context) ==
    { Text(<<"t">>),
      ModifyConversation(add_message(context, AssistantMessage(<<"t">>, None))) }

\* what the task of the title chat may send next: what its workflow sends,
\* and the error its workflow returned with
TitleItems(context) ==
    {Text(text) : text \in TitleTexts}
        \cup {ModifyConversation(add_message(context, AssistantMessage(<<"T">>, None))),
              ErrorEvent}

UIInit ==
    /\ conversations \in
          {<<>>} \cup {[id \in {ConversationId} |-> Row(c)] : c \in StoredContexts}
    /\ Idle
    /\ planned = None
    /\ NoApp
    /\ NoServices
    /\ ui_pc = "start"
    /\ chat_request \in
          {[conversation_id |-> id] : id \in {NoName, ConversationId, UnknownId}}
    /\ is_new = FALSE
    /\ stream_head = <<>>
    /\ complete_response = <<>>
    /\ title_pc = "idle"
    /\ title_request = <<>>
    /\ title_sent = <<>>
    /\ title_received = 0

\* what UIService::chat and the chat tasks leave alone
outside_ui == <<tool_call_parts, some_tool_call, some_tool_result,
                assistant_message_content, message, history, planned, application,
                services>>

\* the conversation of the request is read, or a new one is created
UIResolve ==
    /\ ui_pc = "start"
    /\ IF chat_request.conversation_id # NoName
       THEN /\ ui_pc' = IF chat_request.conversation_id \in DOMAIN conversations
                        THEN "chat" ELSE "failed"
            /\ UNCHANGED <<conversations, chat_request, is_new>>
       ELSE \E id \in ConversationIds \ DOMAIN conversations :
                /\ conversations' = set_conversation(conversations, <<>>, id)
                /\ chat_request' = [conversation_id |-> id]
                /\ is_new' = TRUE
                /\ ui_pc' = "chat"
    /\ UNCHANGED <<pc, request, sent, received, delivered, stream_head,
                   complete_response, title_stream, outside_ui>>

\* the chat stream is opened for every conversation as for a new one
UIChat_AlwaysNew ==
    /\ ui_pc = "chat"
    /\ pc = "idle"
    /\ \/ /\ request' = InitialRequest(conversations[chat_request.conversation_id].content)
          /\ pc' = "workflow"
          /\ ui_pc' = "title"
       \/ /\ ui_pc' = "failed"
          /\ UNCHANGED <<pc, request>>
    /\ UNCHANGED <<conversations, chat_request, is_new, sent, received, delivered,
                   stream_head, complete_response, title_stream, outside_ui>>

\* chat_service.chat(request, conversation.context): the chat task starts
\* from the stored context, or the call fails
UIChat ==
    /\ ui_pc = "chat"
    /\ pc = "idle"
    /\ \/ /\ request' = InitialRequest(conversations[chat_request.conversation_id].content)
          /\ pc' = "workflow"
          /\ ui_pc' = IF is_new THEN "title" ELSE "stream"
       \/ /\ ui_pc' = "failed"
          /\ UNCHANGED <<pc, request>>
    /\ UNCHANGED <<conversations, chat_request, is_new, sent, received, delivered,
                   stream_head, complete_response, title_stream, outside_ui>>

\* chat_service.chat(title_gen_request, Context::default()): the title task
\* starts from an empty context, or the call fails
UITitleChat ==
    /\ ui_pc = "title"
    /\ \/ /\ title_request' = InitialTitleRequest
          /\ title_pc' = "workflow"
          /\ ui_pc' = "collect"
       \/ /\ ui_pc' = "failed"
          /\ UNCHANGED <<title_pc, title_request>>
    /\ UNCHANGED <<conversations, chat_request, is_new, pc, request, sent, received,
                   delivered, stream_head, complete_response, title_sent,
                   title_received, outside_ui>>

\* the title stream is read and its contexts are stored like those of the
\* chat stream
UICollect_Persists ==
    /\ ui_pc = "collect"
    /\ title_received < Len(title_sent)
    /\ LET res == title_sent[title_received + 1]
       IN  /\ complete_response' =
                 IF res.type = "Text" THEN complete_response \o res.text
                 ELSE complete_response
           /\ conversations' =
                 IF res.type = "ModifyConversation"
                 THEN set_conversation(conversations, res.context,
                                       chat_request.conversation_id)
                 ELSE conversations
    /\ title_received' = title_received + 1
    /\ UNCHANGED <<chat_request, is_new, ui_pc, pc, request, sent, received,
                   delivered, stream_head, title_pc, title_request, title_sent,
                   outside_ui>>

\* title_stream.next(): the text of a Text item is collected, any other item
\* is dropped
UICollect ==
    /\ ui_pc = "collect"
    /\ title_received < Len(title_sent)
    /\ LET res == title_sent[title_received + 1]
       IN  complete_response' =
               IF res.type = "Text" THEN complete_response \o res.text
               ELSE complete_response
    /\ title_received' = title_received + 1
    /\ UNCHANGED <<conversations, chat_request, is_new, ui_pc, pc, request, sent,
                   received, delivered, stream_head, title_pc, title_request,
                   title_sent, outside_ui>>

\* the title stream has ended: the title is parsed and ConversationStarted
\* is chained before the chat stream, which is returned
UIReturn ==
    /\ ui_pc = "collect"
    /\ title_pc = "done"
    /\ title_received = Len(title_sent)
    /\ LET parsed == TagParserGet(complete_response)
           title == IF parsed.some THEN parsed.value ELSE Untitled
       IN  stream_head' = <<ConversationStarted(chat_request.conversation_id, title)>>
    /\ ui_pc' = "stream"
    /\ UNCHANGED <<conversations, chat_request, is_new, pc, request, sent, received,
                   delivered, complete_response, title_stream, outside_ui>>

\* the workflow of the chat task sends an event
WorkflowSend ==
    /\ pc = "workflow"
    /\ Len(sent) < MaxEvents
    /\ \E item \in WorkflowItems(request) :
          /\ Send(item)
          /\ request' = IF item.type = "ModifyConversation" THEN item.context
                        ELSE request
    /\ UNCHANGED <<pc, facade, ui, stream_head, outside_ui>>

\* the workflow of the chat task returns, with or without an error
WorkflowReturn ==
    /\ pc = "workflow"
    /\ \/ pc' = "complete"
       \/ pc' = "error"
    /\ UNCHANGED <<request, sent, facade, ui, stream_head, outside_ui>>

\* the workflow of the title task sends an event on its channel
TitleSend ==
    /\ title_pc = "workflow"
    /\ Len(title_sent) < MaxEvents
    /\ Len(title_sent) - title_received < ChannelCapacity
    /\ \E item \in TitleItems(title_request) :
          /\ title_sent' = Append(title_sent, item)
          /\ title_request' = IF item.type = "ModifyConversation" THEN item.context
                              ELSE title_request
    /\ UNCHANGED <<title_pc, title_received>>
    /\ UNCHANGED <<pc, request, sent, facade, ui_pc, chat_request, is_new,
                   complete_response, stream_head, outside_ui>>

\* the title task sends Complete and drops its sender
TitleComplete ==
    /\ title_pc = "workflow"
    /\ Len(title_sent) - title_received < ChannelCapacity
    /\ title_sent' = Append(title_sent, Complete)
    /\ title_pc' = "done"
    /\ UNCHANGED <<title_request, title_received>>
    /\ UNCHANGED <<pc, request, sent, facade, ui_pc, chat_request, is_new,
                   complete_response, stream_head, outside_ui>>

UINext ==
    \/ UIResolve
    \/ UIChat
    \/ UITitleChat
    \/ UICollect
    \/ UIReturn
    \/ WorkflowSend
    \/ WorkflowReturn
    \/ SendError
    \/ SendComplete
    \/ TitleSend
    \/ TitleComplete
    \/ Poll

UISpec == UIInit /\ [][UINext]_vars


(***************************************************************************)
(* The conversation repository (forge_app/src/repo/conversation.rs) over   *)
(* its table, called in any order.                                         *)
(***************************************************************************)
\* how many calls write to the table
MaxStoreOps == 3

\* the titles set_conversation_title is called with
Titles == {"T"}

\* the contexts set_conversation is called with
StoreContexts ==
    { <<>>,
      <<SystemMessage(SystemPrompt), UserMessage(UserPrompt),
        AssistantMessage(<<>>, ToolCallFull("foo", "c1", [t |-> "object"])),
        ToolMessage(failure(ToolResultFrom(ToolCallFull("foo", NoName, [t |-> "object"])),
                            NoSuchTool("foo")))>> }

\* serde of an Option: null, or the value
serialize_option(value, none) == IF value = none THEN <<>> ELSE <<value>>
deserialize_option(tokens, none) == IF tokens = <<>> THEN none ELSE tokens[1]

\* serde of a ToolCallFull
serialize_call(call) ==
    <<call.name, serialize_option(call.call_id, NoName), call.arguments>>
deserialize_call(tokens) ==
    ToolCallFull(tokens[1], deserialize_option(tokens[2], NoName), tokens[3])

\* serde of a CompletionMessage: the variant's name, then its fields in order
serialize_message(m) ==
    IF m.kind = "content"
    THEN <<"ContentMessage", m.role, m.content,
           IF m.tool_call = None THEN <<>> ELSE <<serialize_call(m.tool_call)>> >>
    ELSE <<"ToolMessage", m.result.name,
           serialize_option(m.result.call_id, NoName),
           m.result.content, m.result.is_error>>

deserialize_message(tokens) ==
    IF tokens[1] = "ContentMessage"
    THEN ContentMessage(tokens[2], tokens[3],
                        IF tokens[4] = <<>> THEN None
                        ELSE deserialize_call(tokens[4][1]))
    ELSE ToolMessage([name |-> tokens[2],
                      call_id |-> deserialize_option(tokens[3], NoName),
                      content |-> tokens[4], is_error |-> tokens[5]])

\* serde_json::to_string(request)
to_string(context) == [i \in DOMAIN context |-> serialize_message(context[i])]

\* serde_json::from_str(&raw.content): fails on a variant serde does not know
from_str(text) ==
    IF \A i \in DOMAIN text : text[i][1] \in {"ContentMessage", "ToolMessage"}
    THEN [ok |-> TRUE, value |-> [i \in DOMAIN text |-> deserialize_message(text[i])]]
    ELSE [ok |-> FALSE, value |-> <<>>]

\* the row set_conversation builds
RawConversation(id, now, content) ==
    [id |-> id, created_at |-> now, updated_at |-> now, content |-> content,
     archived |-> FALSE, title |-> None]

\* Conversation::try_from(raw)
try_from(raw) ==
    LET context == from_str(raw.content)
    IN  IF context.ok
        THEN [ok |-> TRUE,
              value |-> [id |-> raw.id,
                         meta |-> [created_at |-> raw.created_at,
                                   updated_at |-> raw.updated_at],
                         context |-> context.value,
                         archived |-> raw.archived,
                         title |-> raw.title]]
        ELSE [ok |-> FALSE, value |-> None]

\* an Err of the repository
Failed == [ok |-> FALSE, value |-> None]

\* conversations::table.find(id).first(conn), converted
find_first(rows, id) ==
    IF id \in DOMAIN rows THEN try_from(rows[id]) ELSE Failed

\* the statement replaces the whole row on conflict
insert_on_conflict_Replace(rows, raw) ==
    [i \in DOMAIN rows \cup {raw.id} |-> IF i = raw.id THEN raw ELSE rows[i]]

\* insert_into(..).values(&raw).on_conflict(id).do_update().set((content,
\* updated_at))
insert_on_conflict(rows, raw) ==
    IF raw.id \in DOMAIN rows
    THEN [rows EXCEPT ![raw.id].content = raw.content,
                      ![raw.id].updated_at = raw.updated_at]
    ELSE [i \in DOMAIN rows \cup {raw.id} |-> IF i = raw.id THEN raw ELSE rows[i]]

\* the row is deleted
update_archived_Delete(rows, id) == [i \in DOMAIN rows \ {id} |-> rows[i]]

\* update(table.find(id)).set(archived.eq(true))
update_archived(rows, id) ==
    IF id \in DOMAIN rows THEN [rows EXCEPT ![id].archived = TRUE] ELSE rows

\* update(table.find(id)).set(title.eq(title))
update_title(rows, id, title) ==
    IF id \in DOMAIN rows THEN set_conversation_title(rows, id, title) ELSE rows

\* the query loads every row
load_active_All(rows) == DOMAIN rows

\* table.filter(archived.eq(false)).load(conn): the ids of the rows loaded
load_active(rows) == {id \in DOMAIN rows : ~rows[id].archived}

\* the orders a query may return a set of rows in
Orders(ids) ==
    {order \in [1..Cardinality(ids) -> ids] :
        \A i, j \in DOMAIN order : i # j => order[i] # order[j]}

\* where a call may fail: before its statement has run (no connection, the
\* context does not serialize, the statement fails), or reading the row back
WriteFaults == {"none", "execute", "read"}
ReadFaults == {"none", "read"}

\* the ids a caller may pass
CallerIds == ConversationIds \cup {UnknownId}

StoreInit ==
    /\ conversations = [id \in {ConversationId} |-> Row(<<>>)]
    /\ Idle
    /\ planned = None
    /\ NoApp
    /\ Streaming(ConversationId)
    /\ NoTooling
    /\ table = <<>>
    /\ clock = 0
    /\ reply = None
    /\ cache = <<>>
    /\ in_flight = {}
    /\ callers = <<>>
    /\ upstream = <<>>

\* what the repository leaves alone
outside_store == <<pc, workflow, history, sent, facade, planned, application, ui,
                   stream_head, parameters_cache, tooling>>

\* set_conversation(request, id)
SetConversation ==
    /\ clock < MaxStoreOps
    /\ \E context \in StoreContexts, given \in ConversationIds \cup {NoName},
          fault \in WriteFaults :
        \E id \in IF given = NoName THEN ConversationIds \ DOMAIN table ELSE {given} :
          LET raw == RawConversation(id, clock, to_string(context))
              call == [op |-> "set_conversation", id |-> id, context |-> context]
          IN  IF fault = "execute"
              THEN /\ table' = table
                   /\ reply' = [call |-> call, result |-> Failed]
              ELSE /\ table' = insert_on_conflict(table, raw)
                   /\ reply' = [call |-> call,
                                result |-> IF fault = "read" THEN Failed
                                           ELSE find_first(table', id)]
    /\ clock' = clock + 1
    /\ UNCHANGED outside_store

\* get_conversation(id)
GetConversation ==
    /\ \E id \in CallerIds, fault \in ReadFaults :
          reply' = [call |-> [op |-> "get_conversation", id |-> id],
                    result |-> IF fault = "none" THEN find_first(table, id)
                               ELSE Failed]
    /\ UNCHANGED <<table, clock, outside_store>>

\* list_conversations()
ListConversations ==
    /\ \E order \in Orders(load_active(table)), fault \in ReadFaults :
          LET converted == [i \in DOMAIN order |-> try_from(table[order[i]])]
          IN  reply' =
                [call |-> [op |-> "list_conversations"],
                 result |->
                    IF fault = "none" /\ \A i \in DOMAIN converted : converted[i].ok
                    THEN [ok |-> TRUE,
                          value |-> [i \in DOMAIN converted |-> converted[i].value]]
                    ELSE Failed]
    /\ UNCHANGED <<table, clock, outside_store>>

\* archive_conversation(id)
ArchiveConversation ==
    /\ clock < MaxStoreOps
    /\ \E id \in CallerIds, fault \in WriteFaults :
          LET call == [op |-> "archive_conversation", id |-> id]
          IN  IF fault = "execute"
              THEN /\ table' = table
                   /\ reply' = [call |-> call, result |-> Failed]
              ELSE /\ table' = update_archived(table, id)
                   /\ reply' = [call |-> call,
                                result |-> IF fault = "read" THEN Failed
                                           ELSE find_first(table', id)]
    /\ clock' = clock + 1
    /\ UNCHANGED outside_store

\* set_conversation_title(id, title)
SetConversationTitle ==
    /\ clock < MaxStoreOps
    /\ \E id \in CallerIds, title \in Titles, fault \in WriteFaults :
          LET call == [op |-> "set_conversation_title", id |-> id, title |-> title]
          IN  IF fault = "execute"
              THEN /\ table' = table
                   /\ reply' = [call |-> call, result |-> Failed]
              ELSE /\ table' = update_title(table, id, title)
                   /\ reply' = [call |-> call,
                                result |-> IF fault = "read" THEN Failed
                                           ELSE find_first(table', id)]
    /\ clock' = clock + 1
    /\ UNCHANGED outside_store

StoreNext ==
    \/ SetConversation
    \/ GetConversation
    \/ ListConversations
    \/ ArchiveConversation
    \/ SetConversationTitle

StoreSpec == StoreInit /\ [][StoreNext]_vars


(***************************************************************************)
(* The turn behind a facade whose store may fail.                          *)
(***************************************************************************)
\* one item of the stream, a context, and set_conversation(..).await? fails:
\* the item becomes the Err, which passes the filter; the statement may or
\* may not have run
PollPersistFails ==
    /\ ui_pc = "stream"
    /\ stream_head = <<>>
    /\ received < Len(sent)
    /\ sent[received + 1].type = "ModifyConversation"
    /\ \/ UNCHANGED conversations
       \/ conversations' =
             set_conversation(conversations, sent[received + 1].context,
                              chat_request.conversation_id)
    /\ delivered' = Append(delivered, ErrorEvent)
    /\ received' = received + 1
    /\ UNCHANGED <<pc, workflow, history, sent, elsewhere>>

FailNext ==
    \/ Chat
    \/ ProviderChat
    \/ NextChunk
    \/ NextError
    \/ NextNone
    \/ OnContent
    \/ OnToolCallPart
    \/ OnFinishReason
    \/ ToolCall
    \/ SendToolUseEnd
    \/ AddAssistant
    \/ AddToolResult
    \/ SendError
    \/ SendComplete
    \/ Poll
    \/ PollPersistFails

FailSpec == Init /\ [][FailNext]_vars


(***************************************************************************)
(* The turn whose consumer may drop the stream: handle_chat_stream returns *)
(* on ctrl_c and the stream, with the receiver in it, goes out of scope.   *)
(***************************************************************************)
\* the consumer drops the stream it was given
Cancel ==
    /\ ui_pc = "stream"
    /\ pc # "idle"
    /\ ui_pc' = "dropped"
    /\ UNCHANGED <<pc, workflow, history, sent, facade, planned, application,
                   chat_request, is_new, complete_response, title_stream,
                   stream_head, services>>

\* the next thing the chat task does is a tx.send
SendsNext ==
    \/ pc = "content" /\ message.content # <<>>
    \/ /\ pc = "parts"
       /\ message.tool_call # <<>>
       /\ tool_call_parts = <<>>
       /\ Head(message.tool_call).name # NoName
    \/ /\ pc = "finish"
       /\ message.finish_reason = "ToolCalls"
       /\ try_from_parts(tool_call_parts).ok
    \/ pc \in {"end", "assistant", "tool", "error", "complete"}

\* tx.send(..).await.unwrap() on a channel whose receiver is gone: the send
\* is an Err and the unwrap panics, which ends the task
SendPanics ==
    /\ ui_pc = "dropped"
    /\ SendsNext
    /\ pc' = "panicked"
    /\ UNCHANGED <<workflow, history, sent, facade, elsewhere>>

DropNext ==
    \/ Chat
    \/ ProviderChat
    \/ NextChunk
    \/ NextError
    \/ NextNone
    \/ OnContent
    \/ OnToolCallPart
    \/ OnFinishReason
    \/ ToolCall
    \/ SendToolUseEnd
    \/ AddAssistant
    \/ AddToolResult
    \/ SendError
    \/ SendComplete
    \/ Poll
    \/ Cancel
    \/ SendPanics

DropSpec == Init /\ [][DropNext]_vars


(***************************************************************************)
(* The turn under the scheduling the runtime gives it: the chat task and   *)
(* the consumer take every step they can take.  Nothing obliges the        *)
(* provider to deliver a chunk, or to end its stream, nor a tool to        *)
(* return; the code sets no timer on either.                               *)
(***************************************************************************)
\* the steps of the chat task that wait for nobody but the channel
TaskStep ==
    \/ Chat
    \/ ProviderChat
    \/ OnContent
    \/ OnToolCallPart
    \/ OnFinishReason
    \/ SendToolUseEnd
    \/ AddAssistant
    \/ AddToolResult
    \/ SendError
    \/ SendComplete

FairSpec == Init /\ [][Next]_vars /\ WF_vars(TaskStep) /\ WF_vars(Poll)


(***************************************************************************)
(* ProviderService::parameters of forge_app: calls that run concurrently   *)
(* over the cache.  Cache::try_get_with_by_ref is modelled by its          *)
(* contract: a call that finds no value and no evaluation under way for    *)
(* its key evaluates its init future; a call that finds one under way      *)
(* waits for it and takes its outcome, value or error; only a value is     *)
(* kept.  A Parameters value is named by the upstream request it came      *)
(* from.                                                                   *)
(***************************************************************************)
\* how many calls of parameters(model) are made
MaxCallers == 3

ModelIds == {"m1", "m2"}

Callers == 1..MaxCallers

\* a call that has not been made yet
NotCalled == [pc |-> "idle", model |-> NoName, served_by |-> 0, joined |-> FALSE,
              result |-> None]

\* the upstream requests for the model that have not returned
Pending(m) ==
    {i \in DOMAIN upstream : upstream[i].model = m /\ upstream[i].outcome = "pending"}

\* what a call gets from the upstream request i
Outcome(i) == [ok |-> upstream[i].outcome = "ok", value |-> i]

ParamInit ==
    /\ conversations = [id \in {ConversationId} |-> Row(<<>>)]
    /\ Idle
    /\ planned = None
    /\ NoApp
    /\ Streaming(ConversationId)
    /\ NoTooling
    /\ table = <<>>
    /\ clock = 0
    /\ reply = None
    /\ cache = <<>>
    /\ in_flight = {}
    /\ callers = [c \in Callers |-> NotCalled]
    /\ upstream = <<>>

\* what parameters(model) leaves alone
outside_parameters == <<pc, workflow, history, sent, facade, planned, application, ui,
                        stream_head, repository, tooling>>

\* the cache is read with get and filled with insert: every call that finds
\* no value asks the provider itself
ParametersCall_NoCoalesce ==
    /\ \E c \in Callers, m \in ModelIds :
          /\ callers[c].pc = "idle"
          /\ IF m \in DOMAIN cache
             THEN /\ callers' = [callers EXCEPT ![c] =
                        [pc |-> "done", model |-> m, served_by |-> cache[m],
                         joined |-> FALSE, result |-> [ok |-> TRUE, value |-> cache[m]]]]
                  /\ UNCHANGED <<in_flight, upstream>>
             ELSE /\ callers' = [callers EXCEPT ![c] =
                        [pc |-> "leading", model |-> m,
                         served_by |-> Len(upstream) + 1, joined |-> FALSE,
                         result |-> None]]
                  /\ in_flight' = in_flight \cup {m}
                  /\ upstream' = Append(upstream, [model |-> m, outcome |-> "pending"])
    /\ UNCHANGED <<cache, outside_parameters>>

\* parameters(model): self.cache.try_get_with_by_ref(model, init) is entered
ParametersCall ==
    /\ \E c \in Callers, m \in ModelIds :
          /\ callers[c].pc = "idle"
          /\ IF m \in DOMAIN cache
             THEN /\ callers' = [callers EXCEPT ![c] =
                        [pc |-> "done", model |-> m, served_by |-> cache[m],
                         joined |-> FALSE, result |-> [ok |-> TRUE, value |-> cache[m]]]]
                  /\ UNCHANGED <<in_flight, upstream>>
             ELSE IF m \in in_flight
             THEN /\ callers' = [callers EXCEPT ![c] =
                        [pc |-> "waiting", model |-> m,
                         served_by |-> CHOOSE i \in Pending(m) : TRUE,
                         joined |-> TRUE, result |-> None]]
                  /\ UNCHANGED <<in_flight, upstream>>
             ELSE /\ callers' = [callers EXCEPT ![c] =
                        [pc |-> "leading", model |-> m,
                         served_by |-> Len(upstream) + 1, joined |-> FALSE,
                         result |-> None]]
                  /\ in_flight' = in_flight \cup {m}
                  /\ upstream' = Append(upstream, [model |-> m, outcome |-> "pending"])
    /\ UNCHANGED <<cache, outside_parameters>>

\* self.provider.parameters(model).await returns to the call that asked: a
\* value goes into the cache, an error does not
UpstreamReturns ==
    /\ \E c \in Callers, outcome \in {"ok", "err"} :
          /\ callers[c].pc = "leading"
          /\ LET i == callers[c].served_by
                 m == callers[c].model
             IN  /\ upstream' = [upstream EXCEPT ![i].outcome = outcome]
                 /\ cache' = IF outcome = "ok"
                             THEN [k \in DOMAIN cache \cup {m} |->
                                     IF k = m THEN i ELSE cache[k]]
                             ELSE cache
                 /\ in_flight' = in_flight \ {m}
                 /\ callers' = [callers EXCEPT ![c].pc = "done",
                                               ![c].result = [ok |-> outcome = "ok",
                                                              value |-> i]]
    /\ UNCHANGED outside_parameters

\* a call that waited takes the outcome of the evaluation it waited for
WaiterReturns ==
    /\ \E c \in Callers :
          /\ callers[c].pc = "waiting"
          /\ upstream[callers[c].served_by].outcome # "pending"
          /\ callers' = [callers EXCEPT ![c].pc = "done",
                                        ![c].result = Outcome(callers[c].served_by)]
    /\ UNCHANGED <<cache, in_flight, upstream, outside_parameters>>

ParamNext ==
    \/ ParametersCall
    \/ UpstreamReturns
    \/ WaiterReturns

ParamSpec == ParamInit /\ [][ParamNext]_vars


(***************************************************************************)
(* Turn after turn on one conversation: when the stream of a turn has      *)
(* ended the caller sends the next request with the same conversation id,  *)
(* and UIService::chat starts a chat task from the stored context.         *)
(***************************************************************************)
\* the contexts the conversation may hold before the first turn: nothing, a
\* finished turn, or a context that starts with a user or a tool message
TurnContexts ==
    StoredContexts
        \cup { <<UserMessage(UserPrompt), AssistantMessage(<<"t">>, None)>>,
               <<ToolMessage(failure(ToolResultFrom(ToolCallFull("foo", "c1", [t |-> "object"])),
                                     NoSuchTool("foo")))>> }

TurnsInit ==
    /\ conversations \in {[id \in {ConversationId} |-> Row(c)] : c \in TurnContexts}
    /\ Idle
    /\ planned = None
    /\ NoApp
    /\ NoServices
    /\ Streaming(ConversationId)

\* the stream of the turn has ended and the caller sends its next request:
\* a new channel and a new chat task, which has not run yet
NextTurn ==
    /\ ui_pc = "stream"
    /\ pc = "done"
    /\ received = Len(sent)
    /\ pc' = "idle"
    /\ request' = <<>>
    /\ tool_call_parts' = <<>>
    /\ some_tool_call' = None
    /\ some_tool_result' = None
    /\ assistant_message_content' = <<>>
    /\ message' = None
    /\ sent' = <<>>
    /\ received' = 0
    /\ delivered' = <<>>
    /\ UNCHANGED <<conversations, history>>
    /\ UNCHANGED elsewhere

TurnsNext ==
    \/ Chat
    \/ ProviderChat
    \/ NextChunk
    \/ NextError
    \/ NextNone
    \/ OnContent
    \/ OnToolCallPart
    \/ OnFinishReason
    \/ ToolCall
    \/ SendToolUseEnd
    \/ AddAssistant
    \/ AddToolResult
    \/ SendError
    \/ SendComplete
    \/ Poll
    \/ NextTurn

TurnsSpec == TurnsInit /\ [][TurnsNext]_vars


(***************************************************************************)
(* The tool registry (forge_tool/src/tool_service.rs) and the system       *)
(* prompt rendered from it (system_prompt_service.rs), over the runs of    *)
(* the program: every run builds the registry anew.                        *)
(***************************************************************************)
\* how many times list() and get_system_prompt() are called
MaxListings == 2

\* names of registered tools, in the order str::cmp gives them
SortedNames == <<"fs_read", "shell">>

\* a.cmp(b) == Ordering::Less, for tool names
Less(a, b) ==
    \E i, j \in DOMAIN SortedNames :
        SortedNames[i] = a /\ SortedNames[j] = b /\ i < j

\* the definition of a tool: its name, its description, and the properties
\* of its input schema
ToolDefinition(name) ==
    [name |-> name, description |-> "d", parameters |-> <<"path">>]

\* the orders in which the values of a HashMap with these keys may iterate:
\* the order depends on the keys of the map's RandomState, which are drawn
\* when the process starts
IterationOrders(names) ==
    {order \in [1..Cardinality(names) -> names] :
        \A i, j \in DOMAIN order : order[i] = order[j] => i = j}

\* Vec::sort_by on the names of the definitions
RECURSIVE sort_by_name(_)
sort_by_name(definitions) ==
    IF definitions = <<>> THEN <<>>
    ELSE LET first == Head(definitions)
             rest == sort_by_name(Tail(definitions))
             before == SelectSeq(rest, LAMBDA d : ~Less(first.name, d.name))
             after == SelectSeq(rest, LAMBDA d : Less(first.name, d.name))
         IN  before \o <<first>> \o after

\* Live::list: the definitions, as the values of the map iterate
list(registered) == [i \in DOMAIN registered |-> ToolDefinition(registered[i])]

\* Display of UsagePrompt: name, description, and the parameters between
\* the tags of the tool
UsagePrompt(definition) ==
    <<definition.name, definition.description, "Usage:", "<", definition.name, ">">>
        \o definition.parameters \o <<"</", definition.name, ">">>

\* (i + 1).to_string()
Numerals == <<"1", "2", "3", "4">>

\* the fold of usage_prompt over the tools from the i-th on
RECURSIVE Fold(_, _)
Fold(definitions, i) ==
    IF i > Len(definitions) THEN <<>>
    ELSE <<Numerals[i], ". ">> \o UsagePrompt(definitions[i]) \o Fold(definitions, i + 1)

\* Live::usage_prompt that folds the tools as the map iterates them
usage_prompt_Unsorted(registered) == Fold(list(registered), 1)

\* Live::usage_prompt
usage_prompt(registered) == Fold(sort_by_name(list(registered)), 1)

\* the environments a run may have, and what parameters(model) may say
Environments == {"linux", "macos"}

\* Handlebars::render_template on Context {env, tool_information,
\* tool_supported}: the template's text with the three values put in
render_template(env, tool_information, tool_supported) ==
    <<"env:", env, "tools:">> \o tool_information
        \o <<"tool_supported:", IF tool_supported THEN "true" ELSE "false">>

\* SystemPromptService::get_system_prompt
get_system_prompt(env, registered, tool_supported) ==
    render_template(env, usage_prompt(registered), tool_supported)

RegistryInit ==
    /\ conversations = [id \in {ConversationId} |-> Row(<<>>)]
    /\ Idle
    /\ planned = None
    /\ NoApp
    /\ NoServices
    /\ Streaming(ConversationId)

\* what the registry and the system prompt leave alone
outside_registry == <<pc, workflow, history, sent, facade, planned, application, ui,
                      stream_head, repository, parameters_cache, shell, file_system,
                      user_prompts>>

\* a run of the program starts: Live::new collects the tools into a HashMap
ToolServiceNew ==
    /\ tools' \in IterationOrders({SortedNames[i] : i \in DOMAIN SortedNames})
    /\ tools' # tools
    /\ UNCHANGED <<listings, rendered, outside_registry>>

\* list()
List ==
    /\ tools # <<>>
    /\ Len(listings) < MaxListings
    /\ listings' = Append(listings, list(tools))
    /\ UNCHANGED <<tools, rendered, outside_registry>>

\* get_system_prompt(model), for what parameters(model) says of the model
GetSystemPrompt ==
    /\ tools # <<>>
    /\ Len(rendered) < MaxListings
    /\ \E env \in Environments, tool_supported \in BOOLEAN :
          rendered' = Append(rendered,
                             [env |-> env, tools |-> tools,
                              tool_supported |-> tool_supported,
                              prompt |-> get_system_prompt(env, tools, tool_supported)])
    /\ UNCHANGED <<tools, listings, outside_registry>>

RegistryNext ==
    \/ ToolServiceNew
    \/ List
    \/ GetSystemPrompt

RegistrySpec == RegistryInit /\ [][RegistryNext]_vars


(***************************************************************************)
(* The shell tool (forge_tool/src/shell.rs).  A command is the sequence of *)
(* its whitespace-separated words.                                         *)
(***************************************************************************)
\* how many child processes the tool spawns
MaxSpawned == 3

\* some of the commands Shell::default puts on the blacklist
Blacklist == {"rm", "mkfs", "dd", "sudo", "shutdown"}

\* the commands the tool is called with
ShellCommands ==
    { <<>>,
      <<"ls">>,
      <<"echo", "rm">>,
      <<"rm", "-rf", "/">>,
      <<"sudo", "ls">>,
      <<"ls", ";", "rm", "-rf", "/">> }

\* Shell::validate_command
validate_command(command) ==
    IF command = <<>> THEN [ok |-> FALSE, error |-> "Empty command"]
    ELSE IF Head(command) \in Blacklist
         THEN [ok |-> FALSE, error |-> "not allowed"]
         ELSE [ok |-> TRUE, error |-> ""]

\* the programs the shell runs for `-c command`: the first word of every
\* command of the list
Invoked(command) ==
    {command[i] : i \in {j \in DOMAIN command : j = 1 \/ command[j - 1] = ";"}}

\* how Command::output may end: the process ran and its status is success
\* or not, or the shell could not be started
Outputs ==
    { [ok |-> TRUE, success |-> TRUE], [ok |-> TRUE, success |-> FALSE],
      [ok |-> FALSE, error |-> "io"] }

ShellInit ==
    /\ conversations = [id \in {ConversationId} |-> Row(<<>>)]
    /\ Idle
    /\ planned = None
    /\ NoApp
    /\ NoServices
    /\ Streaming(ConversationId)

\* what the shell tool leaves alone
outside_shell == <<pc, workflow, history, sent, facade, planned, application, ui,
                   stream_head, repository, parameters_cache, registry, file_system,
                   user_prompts>>

\* Shell::call: the command is validated, then executed by the shell
ShellCall ==
    /\ \E command \in ShellCommands :
          LET valid == validate_command(command)
          IN  IF ~valid.ok
              THEN /\ shell_reply' = [command |-> command, result |-> valid]
                   /\ UNCHANGED processes
              ELSE /\ Len(processes) < MaxSpawned
                   /\ \E output \in Outputs :
                         /\ shell_reply' = [command |-> command, result |-> output]
                         /\ processes' = IF output.ok THEN Append(processes, command)
                                         ELSE processes
    /\ UNCHANGED outside_shell

ShellNext == ShellCall

ShellSpec == ShellInit /\ [][ShellNext]_vars


(***************************************************************************)
(* The file-write tool (forge_tool/src/fs/fs_write.rs) over a file system. *)
(* A path is the sequence of its components; an absolute path starts with  *)
(* the root.                                                               *)
(***************************************************************************)
Root == "/"

\* the paths, the contents and the overwrite flags the tool is called with
FsPaths == { <<Root, "d", "f">>, <<Root, "e", "g">>, <<"d", "f">> }
FsContents == {"a", "b"}
Overwrites == {"null", "true", "false"}

\* utils::assert_absolute_path
assert_absolute_path(path) ==
    IF Head(path) = Root THEN [ok |-> TRUE, value |-> ""]
    ELSE [ok |-> FALSE, value |-> "Path must be absolute"]

\* Path::parent, and the directories create_dir_all(parent) makes sure of
parent(path) == SubSeq(path, 1, Len(path) - 1)
create_dir_all(directories, path) ==
    directories \cup {SubSeq(path, 1, k) : k \in 1..Len(path)}

\* fs::write
write(contents, path, content) ==
    [p \in DOMAIN contents \cup {path} |-> IF p = path THEN content ELSE contents[p]]

\* what may go wrong in the file system during a call
FsFaults == {"none", "create_dir_all", "write"}

\* FSWrite::call that takes an omitted overwrite as true
fs_write_OverwriteByDefault(contents, directories, input, fault) ==
    LET absolute == assert_absolute_path(input.path)
        file_exists == input.path \in DOMAIN contents \/ input.path \in directories
        unchanged == [files |-> contents, dirs |-> directories]
    IN  IF ~absolute.ok THEN [fs |-> unchanged, result |-> absolute]
        ELSE IF file_exists /\ input.overwrite = "false"
        THEN [fs |-> unchanged, result |-> [ok |-> FALSE, value |-> "already exists"]]
        ELSE IF fault = "create_dir_all"
        THEN [fs |-> unchanged,
              result |-> [ok |-> FALSE, value |-> "Failed to create directories"]]
        ELSE LET made == create_dir_all(directories, parent(input.path))
             IN  IF fault = "write" \/ input.path \in directories
                 THEN [fs |-> [files |-> contents, dirs |-> made],
                       result |-> [ok |-> FALSE, value |-> "io"]]
                 ELSE [fs |-> [files |-> write(contents, input.path, input.content),
                               dirs |-> made],
                       result |-> [ok |-> TRUE, value |-> "Successfully wrote"]]

\* FSWrite::call
fs_write(contents, directories, input, fault) ==
    LET absolute == assert_absolute_path(input.path)
        file_exists == input.path \in DOMAIN contents \/ input.path \in directories
        unchanged == [files |-> contents, dirs |-> directories]
    IN  IF ~absolute.ok THEN [fs |-> unchanged, result |-> absolute]
        ELSE IF file_exists /\ input.overwrite # "true"
        THEN [fs |-> unchanged, result |-> [ok |-> FALSE, value |-> "already exists"]]
        ELSE IF fault = "create_dir_all"
        THEN [fs |-> unchanged,
              result |-> [ok |-> FALSE, value |-> "Failed to create directories"]]
        ELSE LET made == create_dir_all(directories, parent(input.path))
             IN  IF fault = "write" \/ input.path \in directories
                 THEN [fs |-> [files |-> contents, dirs |-> made],
                       result |-> [ok |-> FALSE, value |-> "io"]]
                 ELSE [fs |-> [files |-> write(contents, input.path, input.content),
                               dirs |-> made],
                       result |-> [ok |-> TRUE, value |-> "Successfully wrote"]]

\* an empty file system: the root directory
FsInit ==
    /\ conversations = [id \in {ConversationId} |-> Row(<<>>)]
    /\ Idle
    /\ planned = None
    /\ NoApp
    /\ Streaming(ConversationId)
    /\ table = <<>>
    /\ clock = 0
    /\ reply = None
    /\ cache = <<>>
    /\ in_flight = {}
    /\ callers = <<>>
    /\ upstream = <<>>
    /\ tools = <<>>
    /\ listings = <<>>
    /\ rendered = <<>>
    /\ processes = <<>>
    /\ shell_reply = None
    /\ files = <<>>
    /\ dirs = {<<Root>>}
    /\ fs_reply = None
    /\ readable = {}
    /\ prompt_reply = None

\* what the file-write tool leaves alone
outside_file_system == <<pc, workflow, history, sent, facade, planned, application, ui,
                         stream_head, repository, parameters_cache, registry, shell,
                         user_prompts>>

\* a call of the tool
FSWriteCall ==
    /\ \E path \in FsPaths, content \in FsContents, overwrite \in Overwrites,
          fault \in FsFaults :
          LET input == [path |-> path, content |-> content, overwrite |-> overwrite]
              returned == fs_write(files, dirs, input, fault)
          IN  /\ files' = returned.fs.files
              /\ dirs' = returned.fs.dirs
              /\ fs_reply' = [input |-> input, result |-> returned.result]
    /\ UNCHANGED outside_file_system

FsNext == FSWriteCall

FsSpec == FsInit /\ [][FsNext]_vars


(***************************************************************************)
(* The user prompt (forge_server/src/service/user_prompt_service.rs): the  *)
(* task is parsed for file references, the files are read and the template *)
(* is rendered from the task and the files.  A task is the sequence of its *)
(* words.                                                                  *)
(***************************************************************************)
\* words of a task
MaxTaskWords == 3

\* the words of a task: plain text, and the references @a and @b
TaskWords == {"w", "@a", "@b"}
FilePaths == {"a", "b"}

\* the path a word refers to
PathOf(word) == IF word = "@a" THEN "a" ELSE "b"

\* Prompt::parse(task).files(): the paths of the references, in order
RECURSIVE files_of(_)
files_of(words) ==
    IF words = <<>> THEN <<>>
    ELSE IF Head(words) = "w" THEN files_of(Tail(words))
         ELSE <<PathOf(Head(words))>> \o files_of(Tail(words))

\* FileReadService::read
read(path, readable_paths) ==
    IF path \in readable_paths THEN [ok |-> TRUE, value |-> <<"content of", path>>]
    ELSE [ok |-> FALSE, value |-> <<"cannot read", path>>]

\* the loop of get_user_prompt over the files: the first file that cannot
\* be read ends it with the error
RECURSIVE read_all(_, _)
read_all(paths, readable_paths) ==
    IF paths = <<>> THEN [ok |-> TRUE, value |-> <<>>]
    ELSE LET content == read(Head(paths), readable_paths)
             rest == read_all(Tail(paths), readable_paths)
         IN  IF ~content.ok THEN content
             ELSE IF ~rest.ok THEN rest
             ELSE [ok |-> TRUE,
                   value |-> <<[path |-> Head(paths), content |-> content.value]>>
                                \o rest.value]

\* UserPromptService::get_user_prompt: Context {task, files} is rendered
get_user_prompt(words, readable_paths) ==
    LET file_contents == read_all(files_of(words), readable_paths)
    IN  IF ~file_contents.ok THEN [ok |-> FALSE, error |-> file_contents.value]
        ELSE [ok |-> TRUE, task |-> words, files |-> file_contents.value]

\* the tasks a user may write
Tasks == UNION {[1..n -> TaskWords] : n \in 0..MaxTaskWords}

PromptInit ==
    /\ conversations = [id \in {ConversationId} |-> Row(<<>>)]
    /\ Idle
    /\ planned = None
    /\ NoApp
    /\ Streaming(ConversationId)
    /\ table = <<>>
    /\ clock = 0
    /\ reply = None
    /\ cache = <<>>
    /\ in_flight = {}
    /\ callers = <<>>
    /\ upstream = <<>>
    /\ tools = <<>>
    /\ listings = <<>>
    /\ rendered = <<>>
    /\ processes = <<>>
    /\ shell_reply = None
    /\ files = <<>>
    /\ dirs = {}
    /\ fs_reply = None
    /\ readable \in SUBSET FilePaths
    /\ prompt_reply = None

\* what get_user_prompt leaves alone
outside_user_prompts == <<pc, workflow, history, sent, facade, planned, application, ui,
                          stream_head, repository, parameters_cache, registry, shell,
                          file_system>>

\* get_user_prompt(task), as ChatService::chat calls it for the turn
GetUserPrompt ==
    /\ \E words \in Tasks :
          prompt_reply' = [task |-> words, result |-> get_user_prompt(words, readable)]
    /\ UNCHANGED <<readable, outside_user_prompts>>

PromptNext == GetUserPrompt

PromptSpec == PromptInit /\ [][PromptNext]_vars


(***************************************************************************)
(* Reading the event history.                                              *)
(***************************************************************************)
\* the positions of the events of one type
Positions(type) == {i \in DOMAIN sent : sent[i].type = type}

\* the event types, in order
Types(events) == [i \in DOMAIN events |-> events[i].type]

\* p is a prefix of q, and shorter
StrictPrefix(p, q) == Len(p) < Len(q) /\ SubSeq(q, 1, Len(p)) = p

\* the contexts the loop has produced: sent to the provider, or carried by
\* a ModifyConversation event
ProducedContexts ==
    {llm_calls[i] : i \in DOMAIN llm_calls}
        \cup {sent[i].context : i \in Positions("ModifyConversation")}

(***************************************************************************)
(* C1: in every context the loop produces, a Tool message is immediately   *)
(* preceded by an Assistant message whose tool call has the call_id of the *)
(* Tool message's result.                                                  *)
(***************************************************************************)
ToolMessagesPaired(context) ==
    \A i \in DOMAIN context :
        context[i].kind = "tool" =>
            /\ i > 1
            /\ context[i - 1].kind = "content"
            /\ context[i - 1].role = "Assistant"
            /\ context[i - 1].tool_call # None
            /\ context[i - 1].tool_call.call_id = context[i].result.call_id
            /\ context[i - 1].tool_call.name = context[i].result.name

C1_ToolMessageFollowsItsCall == \A context \in ProducedContexts : ToolMessagesPaired(context)

\* a context with the result of a call that carries a call id was sent to
\* the provider
C1_Witness ==
    \E i \in DOMAIN llm_calls :
        /\ llm_calls[i] # <<>>
        /\ Last(llm_calls[i]).kind = "tool"
        /\ Last(llm_calls[i]).result.call_id = "c1"

(***************************************************************************)
(* C2: the ModifyConversation payloads of a turn grow: each one has the    *)
(* one before it as a strict prefix.                                       *)
(***************************************************************************)
C2_ContextModifiedMonotone ==
    \A i, j \in Positions("ModifyConversation") :
        i < j => StrictPrefix(sent[i].context, sent[j].context)

\* a turn with three payloads
C2_Witness == Cardinality(Positions("ModifyConversation")) >= 3

(***************************************************************************)
(* C3: ToolCallStart and ToolUseEnd alternate, every end carries the name  *)
(* and call_id of the start before it, and a finished turn has no start    *)
(* without its end.                                                        *)
(***************************************************************************)
IsToolEvent(e) == e.type \in {"ToolCallStart", "ToolUseEnd"}

ToolEvents == SelectSeq(sent, IsToolEvent)

C3_ToolCallStartEndPaired ==
    /\ \A k \in DOMAIN ToolEvents :
          IF k % 2 = 1
          THEN ToolEvents[k].type = "ToolCallStart"
          ELSE /\ ToolEvents[k].type = "ToolUseEnd"
               /\ ToolEvents[k].result.name = ToolEvents[k - 1].call.name
               /\ ToolEvents[k].result.call_id = ToolEvents[k - 1].call.call_id
    /\ pc = "done" => Len(ToolEvents) % 2 = 0

\* a finished turn that ran two tool calls
C3_Witness == pc = "done" /\ Len(ToolEvents) = 4


(***************************************************************************)
(* C4: the events follow the phases of a sub-turn: no Text of a sub-turn   *)
(* comes after that sub-turn's ToolCallStart (a Text after a ToolCallStart *)
(* belongs to a later sub-turn, so a ModifyConversation lies in between),  *)
(* and the ToolUseEnd comes before any Text of the following sub-turn.     *)
(***************************************************************************)
C4_TextBeforeToolDispatch ==
    \A i, j \in DOMAIN sent :
        (i < j /\ sent[i].type = "ToolCallStart" /\ sent[j].type = "Text") =>
            /\ \E k \in (i + 1)..(j - 1) : sent[k].type = "ModifyConversation"
            /\ \E k \in (i + 1)..(j - 1) : sent[k].type = "ToolUseEnd"

(***************************************************************************)
(* C5, as claimed: every context the provider is asked to complete was     *)
(* sent as ModifyConversation before the request, and a turn of one text   *)
(* chunk yields ModifyConversation, Text, ModifyConversation, Complete.    *)
(***************************************************************************)
\* the turn of the scenario: one chunk of text, no tool call, no error
OneChunkTurn ==
    /\ pc = "done"
    /\ nchunks = 1
    /\ Len(llm_calls) = 1
    /\ message.content # <<>>
    /\ message.tool_call = <<>>
    /\ Positions("Error") = {}

C5_WitnessSecondRequest == Len(llm_calls) = 2 /\ pc = "next"

(***************************************************************************)
(* C6: once a sub-turn has ended without a tool call, the provider is not  *)
(* asked again and no tool is invoked, the task only sends Complete, and   *)
(* the finished turn ends with Complete.                                   *)
(***************************************************************************)
\* a sub-turn ended with an assistant message that carries no tool call
SubTurnWithoutToolCall ==
    \E i \in Positions("ModifyConversation") :
        /\ Last(sent[i].context).kind = "content"
        /\ Last(sent[i].context).role = "Assistant"
        /\ Last(sent[i].context).tool_call = None

C6_NoToolCallCompletes ==
    /\ [](SubTurnWithoutToolCall =>
            /\ pc \in {"complete", "done"}
            /\ (pc = "done" => Last(sent) = Complete))
    /\ [][SubTurnWithoutToolCall =>
            /\ llm_calls' = llm_calls
            /\ tool_calls' = tool_calls
            /\ Cardinality({i \in DOMAIN sent' : sent'[i].type \in {"ToolCallStart", "Error"}})
                 = Cardinality({i \in DOMAIN sent : sent[i].type \in {"ToolCallStart", "Error"}})]_vars

\* a turn finished after an empty assistant message with a Stop finish
C6_Witness ==
    /\ pc = "done"
    /\ SubTurnWithoutToolCall
    /\ message # None
    /\ message.finish_reason = "Stop"
    /\ assistant_message_content = <<>>

\* a turn finished after Stop text, a tool call having run before
C6_WitnessAfterToolCall ==
    /\ pc = "done"
    /\ SubTurnWithoutToolCall
    /\ tool_calls # <<>>
    /\ message.finish_reason = "Stop"
    /\ assistant_message_content # <<>>

(***************************************************************************)
(* C7: when the provider fails, the Error is the last event of the stream  *)
(* and the workflow has returned.                                          *)
(***************************************************************************)
C7_ErrorIsLastEvent ==
    \A i \in Positions("Error") :
        /\ i = Len(sent)
        /\ pc \in {"complete", "done"}

(***************************************************************************)
(* C8: when the caller sees the Error of a failed provider, the stored     *)
(* conversation is the working context with every message added before the *)
(* failure, the new user message included.                                 *)
(***************************************************************************)
C8_ContextPersistedBeforeError ==
    (\E i \in DOMAIN delivered : delivered[i].type = "Error") =>
        conversations[ConversationId].content = request

(***************************************************************************)
(* C9: the result of a call of an unknown tool is an error whose content   *)
(* lists the names of the registered tools.                                *)
(***************************************************************************)
C9_UnknownToolListsNames ==
    \A i \in Positions("ToolUseEnd") :
        sent[i].result.name \notin RegisteredTools =>
            /\ sent[i].result.is_error
            /\ RegisteredTools \subseteq sent[i].result.content.names

(***************************************************************************)
(* C10: a ToolCalls finish whose argument fragments do not parse does not  *)
(* abort the turn.                                                         *)
(***************************************************************************)
ArgumentsDoNotParse ==
    /\ pc = "finish"
    /\ message.finish_reason = "ToolCalls"
    /\ ~FromStr(Concat(tool_call_parts)).ok

C10_ParseFailureDoesNotAbort == [][ArgumentsDoNotParse => pc' # "error"]_vars

(***************************************************************************)
(* C11: a dispatched call that fails, because its arguments do not fit the *)
(* tool's input type or because the tool returns an error, yields a result *)
(* with is_error set, in the ToolUseEnd event and in the Tool message of   *)
(* every context that carries it.                                          *)
(***************************************************************************)
\* the result reports a failed call: a rejected input, or a tool's error
ToolFailed(result) == result.content.msg \in {"invalid type", "xml:error"}

C11_ToolFailureIsErrorResult ==
    /\ \A i \in Positions("ToolUseEnd") :
          ToolFailed(sent[i].result) => sent[i].result.is_error
    /\ \A context \in ProducedContexts :
          \A k \in DOMAIN context :
              (context[k].kind = "tool" /\ ToolFailed(context[k].result)) =>
                  context[k].result.is_error

(***************************************************************************)
(* C12: at most one tool is invoked per sub-turn: between two              *)
(* ToolCallStart events lies the ModifyConversation that ends a sub-turn.  *)
(***************************************************************************)
C12_OneToolCallPerSubTurn ==
    \A i, j \in Positions("ToolCallStart") :
        i < j => \E k \in (i + 1)..(j - 1) : sent[k].type = "ModifyConversation"

(***************************************************************************)
(* C13: when the response that carries the parts of a call has been read   *)
(* up to its ToolCalls finish, the call assembled from the received parts  *)
(* is the scripted call: its name, its call_id, and the JSON value of its  *)
(* serialized arguments.                                                   *)
(***************************************************************************)
\* the scripted call, as it should come out of the assembly
ScriptedCallFull ==
    ToolCallFull(planned.call.name, planned.call.call_id,
                 FromStr(planned.call.arguments).value)

\* the response has been read to its end and its last chunk handled
ResponseHandled ==
    /\ planned.read = Len(planned.chunks)
    /\ pc \notin {"content", "parts", "finish"}

C13_AssembleRoundTrip == ResponseHandled => some_tool_call = ScriptedCallFull

\* the same, for the responses that carry at most one part in each chunk
OnePartPerChunk ==
    \A i \in DOMAIN planned.chunks : Len(planned.chunks[i].tool_call) <= 1

C13_RoundTripOnePartPerChunk ==
    (OnePartPerChunk /\ ResponseHandled) => some_tool_call = ScriptedCallFull

(***************************************************************************)
(* C14: when the App has handled a response with a Stop finish, the text   *)
(* accumulated since the last finish is the content of the assistant       *)
(* message it appended; the run asks for no tool call when no call is      *)
(* written in that text, and for exactly one, the last one written,        *)
(* otherwise.                                                              *)
(***************************************************************************)
\* the last run handled a response with a Stop finish
StopHandled ==
    /\ action # None
    /\ action.type = "AssistantResponse"
    /\ action.response.finish_reason = "Stop"
    /\ commands.ok

IsToolCallCommand(command) == command.type = "ToolCall"

\* the calls the last run asked the executor for
Dispatched == SelectSeq(commands.commands, IsToolCallCommand)

C14_StopDispatchesLastMatch ==
    StopHandled =>
        LET calls == try_from_xml(Last(app.request).content)
        IN  Dispatched = IF calls = <<>> THEN <<>>
                         ELSE <<ToolCallCommand(Last(calls))>>

\* a text with two different calls, streamed in more than one chunk
C14_Witness ==
    /\ StopHandled
    /\ Len(try_from_xml(Last(app.request).content)) = 2
    /\ try_from_xml(Last(app.request).content)[1] # try_from_xml(Last(app.request).content)[2]
    /\ action.response.content # Last(app.request).content

(***************************************************************************)
(* C15: the facade takes the items of the chat stream in order; what it    *)
(* has yielded to the caller is what it took without the                   *)
(* ModifyConversation events, and the stored context of the conversation   *)
(* is the payload of the last ModifyConversation it took: every payload is *)
(* stored before a later event is yielded, and when the stream has ended   *)
(* the store holds the last payload of the turn.                           *)
(***************************************************************************)
\* the events the facade has taken from the chat stream
Taken == SubSeq(sent, 1, received)

IsForCaller(e) == e.type # "ModifyConversation"

\* the positions of the contexts among the events taken
TakenContexts == {i \in 1..received : sent[i].type = "ModifyConversation"}

\* the chat task is over and the facade has taken all it sent
StreamEnded == pc = "done" /\ received = Len(sent) /\ stream_head = <<>>

C15_ContextsPersistedNotDelivered ==
    /\ delivered = SelectSeq(Taken, IsForCaller)
    /\ TakenContexts # {} =>
          conversations[ConversationId].content =
              sent[CHOOSE i \in TakenContexts : \A j \in TakenContexts : j <= i].context
    /\ (StreamEnded /\ Positions("ModifyConversation") # {}) =>
          \E i \in Positions("ModifyConversation") :
              /\ \A j \in Positions("ModifyConversation") : j <= i
              /\ conversations[ConversationId].content = sent[i].context

\* a turn with a tool call has ended: three contexts were stored, and events
\* were yielded after the first of them
C15_Witness ==
    /\ StreamEnded
    /\ Cardinality(Positions("ModifyConversation")) = 3
    /\ conversations[ConversationId].content = request
    /\ \E i \in DOMAIN delivered : delivered[i].type = "ToolUseEnd"
    /\ Len(delivered) >= 4

(***************************************************************************)
(* C16: for a request without a conversation id the first event the caller *)
(* gets is ConversationStarted, it is the only one, and its id is the row  *)
(* that holds the contexts of the turn; for a request with the id of a     *)
(* stored conversation there is no ConversationStarted.                    *)
(***************************************************************************)
StartedPositions == {i \in DOMAIN delivered : delivered[i].type = "ConversationStarted"}

\* the payload of the last context the facade took from the chat stream
LastTakenContext ==
    sent[CHOOSE i \in TakenContexts : \A j \in TakenContexts : j <= i].context

C16_ConversationStartedIffNew ==
    /\ ~is_new => StartedPositions = {} /\ stream_head = <<>>
    /\ (is_new /\ delivered # <<>>) =>
          /\ StartedPositions = {1}
          /\ delivered[1].conversation_id = chat_request.conversation_id
          /\ delivered[1].conversation_id \in DOMAIN conversations
    /\ (is_new /\ TakenContexts # {}) =>
          /\ delivered # <<>>
          /\ conversations[delivered[1].conversation_id].content = LastTakenContext

\* the stream of a new conversation has ended after a context was stored
C16_Witness ==
    /\ is_new
    /\ StreamEnded
    /\ TakenContexts # {}
    /\ Len(delivered) >= 3

\* the stream of a stored conversation has ended after a context was stored
C16_WitnessExisting ==
    /\ ~is_new
    /\ StreamEnded
    /\ TakenContexts # {}
    /\ delivered # <<>>

(***************************************************************************)
(* C17: a row is created only when a request without a conversation id is  *)
(* resolved, one row, whose id becomes the id of the request; rows are     *)
(* never removed; and the only row whose content changes afterwards is the *)
(* row of the request, when the stream stores a context.                   *)
(***************************************************************************)
C17_OneRowPerConversation ==
    /\ [](is_new => chat_request.conversation_id \in DOMAIN conversations)
    /\ [][/\ DOMAIN conversations \subseteq DOMAIN conversations'
          /\ DOMAIN conversations' # DOMAIN conversations =>
                /\ ui_pc = "start"
                /\ chat_request.conversation_id = NoName
                /\ DOMAIN conversations' \ DOMAIN conversations =
                      {chat_request'.conversation_id}
          /\ \A id \in DOMAIN conversations :
                conversations'[id] # conversations[id] =>
                    /\ id = chat_request.conversation_id
                    /\ ui_pc = "stream"]_vars

\* a new conversation beside a stored one: two contexts went to its row
C17_Witness ==
    /\ is_new
    /\ StreamEnded
    /\ Cardinality(TakenContexts) = 2
    /\ Cardinality(DOMAIN conversations) = 2
    /\ conversations[chat_request.conversation_id].content = request

(***************************************************************************)
(* C18: when the stream of a new conversation has ended, the row of the    *)
(* conversation has the title the title stream produced.                   *)
(***************************************************************************)
C18_TitleStored ==
    (is_new /\ StreamEnded /\ delivered # <<>>) =>
        conversations[chat_request.conversation_id].title =
            StoredTitle(delivered[1].title)

(***************************************************************************)
(* C19: no message of the title chat, prompt or answer, is in the working  *)
(* context of the chat task, in a context it sent or in a stored context,  *)
(* and no context the title stream carried is stored.                      *)
(***************************************************************************)
IsTitleMessage(m) ==
    /\ m.kind = "content"
    /\ \/ m.content \in {TitleSystemPrompt, TitleUserPrompt}
       \/ m.role = "Assistant" /\ m.content = <<"T">>

NoTitleMessage(context) == \A i \in DOMAIN context : ~IsTitleMessage(context[i])

C19_TitleLeavesConversationAlone ==
    /\ NoTitleMessage(request)
    /\ \A i \in Positions("ModifyConversation") : NoTitleMessage(sent[i].context)
    /\ \A id \in DOMAIN conversations :
          /\ NoTitleMessage(conversations[id].content)
          /\ \A i \in DOMAIN title_sent :
                title_sent[i].type = "ModifyConversation" =>
                    conversations[id].content # title_sent[i].context

\* the facade has read a context from the title stream, and the stream of
\* the turn has ended with a context stored
C19_Witness ==
    /\ StreamEnded
    /\ TakenContexts # {}
    /\ \E i \in 1..title_received : title_sent[i].type = "ModifyConversation"

(***************************************************************************)
(* C20: an event of the chat stream that is ready is not held back by the  *)
(* title stream: the facade does not sit in its loop over the title stream *)
(* while the chat task has an event in its channel.                        *)
(***************************************************************************)
C20_MainEventNotHeldByTitle == ~(ui_pc = "collect" /\ received < Len(sent))

\* what the code does instead: nothing reaches the caller before the title
\* stream has ended
C20_DeliveredAfterTitle ==
    (is_new /\ delivered # <<>>) =>
        title_pc = "done" /\ title_received = Len(title_sent)

(***************************************************************************)
(* C21: a turn on a conversation that is already persisted sends no        *)
(* ModifyConversation and writes nothing: the stored context stays what it *)
(* was when the turn began.  ChatService::chat has no entry without a user *)
(* message: the turn checked is the only one the facade offers.            *)
(***************************************************************************)
\* the turn began on a persisted conversation: the first context the
\* provider was asked to complete holds more than the prompts of the turn
ReplayedTurn ==
    /\ llm_calls # <<>>
    /\ Len(llm_calls[1]) > Len(InitialRequest(<<>>))

Kept(row, fields) == [f \in DOMAIN row \ fields |-> row[f]]

C23_ListReturnsActive ==
    /\ \A id \in DOMAIN table : try_from(table[id]).ok
    /\ (reply # None /\ reply.call.op = "list_conversations" /\ reply.result.ok) =>
          LET listed == reply.result.value
          IN  /\ {listed[i].id : i \in DOMAIN listed}
                    = {id \in DOMAIN table : ~table[id].archived}
              /\ \A i, j \in DOMAIN listed : listed[i].id = listed[j].id => i = j
              /\ \A i \in DOMAIN listed :
                    /\ ~listed[i].archived
                    /\ listed[i] = try_from(table[listed[i].id]).value

\* two conversations, one of them archived: one is listed
C23_Witness ==
    /\ reply # None
    /\ reply.call.op = "list_conversations"
    /\ reply.result.ok
    /\ Len(reply.result.value) = 1
    /\ Cardinality(DOMAIN table) = 2

(***************************************************************************)
(* C24: no call removes a row: every id that has a row keeps it and can be *)
(* read; archive_conversation(id) changes nothing but the archived flag of *)
(* the row of id, which is true when the call returns Ok.                  *)
(***************************************************************************)
C24_NeverDeletedArchiveOnly ==
    [][ /\ DOMAIN table \subseteq DOMAIN table'
        /\ \A id \in DOMAIN table : find_first(table', id).ok
        /\ (clock' # clock /\ reply'.call.op = "archive_conversation") =>
              /\ DOMAIN table' = DOMAIN table
              /\ \A id \in DOMAIN table :
                    IF id = reply'.call.id
                    THEN /\ Kept(table'[id], {"archived"}) = Kept(table[id], {"archived"})
                         /\ table[id].archived => table'[id].archived
                         /\ reply'.result.ok =>
                               table'[id].archived /\ reply'.result.value.archived
                    ELSE table'[id] = table[id] ]_vars

\* a conversation with a context and a title was archived
C24_Witness ==
    /\ reply # None
    /\ reply.call.op = "archive_conversation"
    /\ reply.result.ok
    /\ reply.result.value.archived
    /\ reply.result.value.title = StoredTitle("T")
    /\ reply.result.value.context # <<>>

(***************************************************************************)
(* C25: a call that writes and returns Err has changed nothing: every row  *)
(* has the value it had before the call.                                   *)
(***************************************************************************)
C25_FailedWriteChangesNothing ==
    [][ (clock' # clock /\ ~reply'.result.ok) => table' = table ]_vars

\* what the code does keep: every row can be read, whichever calls failed
C25_RowsAlwaysReadable == \A id \in DOMAIN table : find_first(table, id).ok

(***************************************************************************)
(* C26: once the facade has failed to persist a context, the caller has    *)
(* got an Error and the turn is over: the orchestrator asks the provider   *)
(* for nothing more and invokes no further tool.                           *)
(***************************************************************************)
IsErrorEvent(e) == e.type = ErrorEvent.type

\* the caller has got an Error the chat task did not send: a failed write
PersistFailed ==
    Len(SelectSeq(delivered, IsErrorEvent)) > Len(SelectSeq(Taken, IsErrorEvent))

C26_PersistFailureEndsTurn ==
    [][ PersistFailed => llm_calls' = llm_calls /\ tool_calls' = tool_calls ]_vars

\* the part of the claim the code keeps: the failed write reaches the caller
\* as an Error, at the place of the context in the stream
C26_FailureDelivered ==
    [][ (received' # received /\ conversations' = conversations
            /\ sent[received + 1].type = "ModifyConversation"
            /\ conversations[ConversationId].content # sent[received + 1].context)
         => delivered' = Append(delivered, ErrorEvent) ]_vars

(***************************************************************************)
(* C27: once the consumer has dropped the stream the chat task unwinds: it *)
(* asks the provider for nothing more, reads no further chunk, invokes no  *)
(* further tool, and it does not panic.                                    *)
(***************************************************************************)
C27_DropUnwindsWithoutPanic ==
    [][ ui_pc = "dropped" =>
          /\ llm_calls' = llm_calls
          /\ nchunks' = nchunks
          /\ tool_calls' = tool_calls
          /\ pc' # "panicked" ]_vars

\* what the code does: after the drop the task sends nothing, and it ends
\* either by panicking or because it had nothing left to send
C27_NothingSentAfterDrop == [][ ui_pc = "dropped" => sent' = sent ]_vars

(***************************************************************************)
(* C28: when the consumer cancels while the chat task waits for the next   *)
(* chunk, the caller gets no Error for it, and the stored context is the   *)
(* payload of the most recent ModifyConversation of the turn, a context    *)
(* that keeps the invariants of a context: the system message, if any, is  *)
(* the first message, and every tool message follows its call.             *)
(***************************************************************************)
\* invariant 1 of a context
SystemMessageFirst(context) ==
    \A i \in DOMAIN context :
        (context[i].kind = "content" /\ context[i].role = "System") => i = 1

\* the step is a cancellation between two chunks
CancelledBetweenChunks ==
    ui_pc = "stream" /\ ui_pc' = "dropped" /\ pc = "next" /\ nchunks > 0

C28_CancelKeepsLatestContext ==
    [][ CancelledBetweenChunks =>
          /\ delivered' = delivered
          /\ Positions("ModifyConversation") # {} =>
                /\ conversations'[ConversationId].content =
                      sent[CHOOSE i \in Positions("ModifyConversation") :
                              \A j \in Positions("ModifyConversation") : j <= i].context
                /\ SystemMessageFirst(conversations'[ConversationId].content)
                /\ ToolMessagesPaired(conversations'[ConversationId].content) ]_vars

\* what the code does keep: the stored context is the last one the facade
\* had taken from the channel, and it keeps the invariants of a context
C28_StoredIsLastTaken ==
    TakenContexts # {} =>
        /\ conversations[ConversationId].content =
              sent[CHOOSE i \in TakenContexts : \A j \in TakenContexts : j <= i].context
        /\ SystemMessageFirst(conversations[ConversationId].content)
        /\ ToolMessagesPaired(conversations[ConversationId].content)

(***************************************************************************)
(* C29: the chat task never waits forever for the provider's next chunk or *)
(* for a tool to return: a wait that is not answered ends (by the Error of *)
(* a timeout, which ends the turn).                                        *)
(***************************************************************************)
\* the chat task waits for response.next() or for self.tool.call(..)
Waiting == pc = "next" \/ pc = "call"

C29_NeverWaitsForever == Waiting ~> ~Waiting

(***************************************************************************)
(* C30: calls of parameters(model) that run together while no value is     *)
(* cached for the model are served by one upstream request: at most one    *)
(* request per model is under way, the calls in progress for a model all   *)
(* wait for that one request, and every call that has returned got the    *)
(* outcome of the request it waited for; once a value is cached no request *)
(* is made for the model again.                                            *)
(***************************************************************************)
InProgress(c) == callers[c].pc \in {"leading", "waiting"}

C31_OneSystemMessageFirst ==
    /\ \A context \in ProducedContexts : SystemMessageFirst(context)
    /\ \A id \in DOMAIN conversations : SystemMessageFirst(conversations[id].content)

\* the provider was asked in a second turn, on a context that had a system
\* message from the turn before
C31_Witness ==
    /\ Len(llm_calls) > 1
    /\ sent = <<>>
    /\ pc = "next"
    /\ Len(Last(llm_calls)) > 3
    /\ Last(llm_calls)[1] = SystemMessage(SystemPrompt)

\* the provider was asked on a stored context that starts with a tool message
C31_WitnessToolFirst ==
    /\ llm_calls # <<>>
    /\ Last(llm_calls)[1].kind = "tool"


(***************************************************************************)
(* C32: any two calls of list(), in one run or in different runs, return   *)
(* the same sequence of definitions, and the sequence is sorted by name.   *)
(***************************************************************************)
SortedByName(definitions) ==
    \A i, j \in DOMAIN definitions :
        i < j => Less(definitions[i].name, definitions[j].name)

C32_ListDeterministic ==
    \A i, j \in DOMAIN listings :
        /\ listings[i] = listings[j]
        /\ SortedByName(listings[i])

(***************************************************************************)
(* C33: two renderings of the system prompt from the same environment, the *)
(* same set of tool definitions and the same tool_supported are equal, in  *)
(* one run or in different runs.                                           *)
(***************************************************************************)
Catalog(registered) == {ToolDefinition(registered[i]) : i \in DOMAIN registered}

C33_SystemPromptDeterministic ==
    \A i, j \in DOMAIN rendered :
        ( /\ rendered[i].env = rendered[j].env
          /\ Catalog(rendered[i].tools) = Catalog(rendered[j].tools)
          /\ rendered[i].tool_supported = rendered[j].tool_supported )
            => rendered[i].prompt = rendered[j].prompt

\* the prompt was rendered twice from the same triple, by two runs whose
\* registries iterate in different orders
C33_Witness ==
    \E i, j \in DOMAIN rendered :
        /\ rendered[i].env = rendered[j].env
        /\ rendered[i].tool_supported = rendered[j].tool_supported
        /\ rendered[i].tools # rendered[j].tools


(***************************************************************************)
(* C34: a call of the shell tool whose command invokes a blacklisted       *)
(* program, whatever its arguments, returns an error and spawns no child   *)
(* process.                                                                *)
(***************************************************************************)
\* the step is a call of the shell tool
ShellCalled == shell_reply' # None /\ shell' # shell

C34_BlacklistedNeverSpawned ==
    [][ (ShellCalled /\ Invoked(shell_reply'.command) \cap Blacklist # {})
            => (~shell_reply'.result.ok /\ processes' = processes) ]_vars

\* a command whose first word is blacklisted is refused before anything is
\* spawned
C34_BaseCommandRefused ==
    [][ (ShellCalled /\ shell_reply'.command # <<>>
            /\ Head(shell_reply'.command) \in Blacklist)
            => (~shell_reply'.result.ok /\ processes' = processes) ]_vars


(***************************************************************************)
(* C35: a call of the file-write tool with a relative path, or with the    *)
(* path of an existing file and overwrite false or omitted, returns an     *)
(* error and changes neither a file nor a directory.                       *)
(***************************************************************************)
\* the step is a call of the file-write tool
FSWriteCalled == fs_reply' # None /\ file_system' # file_system

\* the call of the step is one the tool has to refuse
ToRefuse ==
    LET input == fs_reply'.input
    IN  \/ Head(input.path) # Root
        \/ (input.path \in DOMAIN files /\ input.overwrite # "true")

C35_RefusalChangesNothing ==
    [][ (FSWriteCalled /\ ToRefuse)
            => (~fs_reply'.result.ok /\ files' = files /\ dirs' = dirs) ]_vars

\* the tool refused to write over a file, with overwrite omitted, and the
\* file has the content it had
C35_Witness ==
    /\ fs_reply # None
    /\ fs_reply.input.overwrite = "null"
    /\ fs_reply.input.path \in DOMAIN files
    /\ files[fs_reply.input.path] # fs_reply.input.content
    /\ ~fs_reply.result.ok
    /\ fs_reply.result.value = "already exists"

\* the tool refused a relative path
C35_WitnessRelative ==
    /\ fs_reply # None
    /\ Head(fs_reply.input.path) # Root
    /\ ~fs_reply.result.ok
    /\ files # <<>>


(***************************************************************************)
(* C36: get_user_prompt returns a prompt for every task: the prompt has    *)
(* the files of the references that can be read, in order, and leaves out  *)
(* the references that cannot be read.                                     *)
(***************************************************************************)
\* the files of the references that can be read, in order
RECURSIVE read_all_Readable(_, _)
read_all_Readable(paths, readable_paths) ==
    IF paths = <<>> THEN [ok |-> TRUE, value |-> <<>>]
    ELSE LET content == read(Head(paths), readable_paths)
             rest == read_all_Readable(Tail(paths), readable_paths)
         IN  IF ~content.ok THEN rest
             ELSE [ok |-> TRUE,
                   value |-> <<[path |-> Head(paths), content |-> content.value]>>
                                \o rest.value]

C36_UnreadableReferenceDropped ==
    prompt_reply # None =>
        /\ prompt_reply.result.ok
        /\ prompt_reply.result.files
              = read_all_Readable(files_of(prompt_reply.task), readable).value

\* when every reference of the task can be read the prompt has their files
C36_ReadableReferencesAttached ==
    (prompt_reply # None
        /\ \A i \in DOMAIN prompt_reply.task :
              prompt_reply.task[i] # "w" => PathOf(prompt_reply.task[i]) \in readable)
        => /\ prompt_reply.result.ok
           /\ prompt_reply.result.files
                 = read_all_Readable(files_of(prompt_reply.task), readable).value


(***************************************************************************)
(* C37: a turn that completes after N sub-turns with a tool call and one   *)
(* last sub-turn without has sent exactly 2N+1 ModifyConversation events.  *)
(***************************************************************************)
\* the turn has completed and no error was sent
CompletedTurn ==
    /\ pc = "done"
    /\ \A i \in DOMAIN sent : sent[i] # ErrorEvent

\* the sub-turns with a tool call: each has added one tool message to the
\* working context, and the stored contexts of Init have none
ToolSubTurns == Cardinality({i \in DOMAIN request : request[i].kind = "tool"})

C37_ContextEventsPerTurn ==
    CompletedTurn =>
        /\ Len(llm_calls) = ToolSubTurns + 1
        /\ Cardinality(Positions("ModifyConversation")) = 2 * ToolSubTurns + 1

\* a turn of two sub-turns with a tool call and a last one without has
\* completed with five ModifyConversation events
C37_Witness ==
    /\ CompletedTurn
    /\ ToolSubTurns = 2
    /\ Cardinality(Positions("ModifyConversation")) = 5


(***************************************************************************)
(* C38: when a sub-turn starts, the buffer of assistant text and the       *)
(* buffer of tool-call parts are empty, whatever the finish reason of the  *)
(* sub-turn before.                                                        *)
(***************************************************************************)
\* the App has handled the last chunk of a sub-turn: the next response it
\* is given starts a sub-turn
SubTurnHandled ==
    /\ action # None
    /\ action.type = "AssistantResponse"
    /\ action.response.finish_reason # "none"
    /\ commands.ok

C38_BuffersEmptyAtSubTurnStart ==
    SubTurnHandled =>
        /\ app.assistant_buffer = <<>>
        /\ app.tool_call_part = <<>>

\* the text buffer of the App is empty when a sub-turn starts
C38_TextBufferEmptyAtSubTurnStart ==
    SubTurnHandled => app.assistant_buffer = <<>>

\* chat_workflow starts every sub-turn with new buffers
C38_WorkflowBuffersNew ==
    [][ (pc = "loop" /\ pc' # "loop")
            => (tool_call_parts' = <<>> /\ assistant_message_content' = <<>>) ]_vars


(***************************************************************************)
(* C40: the commands App::run returns for an action it accepts start with  *)
(* a Persist command that carries the state after the transition and the   *)
(* action, and hold no other Persist command; for an action it rejects no  *)
(* Persist command is returned.                                            *)
(***************************************************************************)
PersistPositions ==
    {i \in DOMAIN commands.commands : commands.commands[i].type = "Persist"}

C40_WitnessRejected ==
    /\ runs > 0
    /\ ~commands.ok


(***************************************************************************)
(* C39: once the chat task of the main turn of a new conversation runs, a  *)
(* failure of the title chat does not make UIService::chat fail: the       *)
(* stream of the main turn is still handed to the caller.                  *)
(***************************************************************************)
C39_TitleFailureKeepsMainTurn ==
    (is_new /\ pc # "idle") => ui_pc # "failed"

\* an error that comes on the title stream does not make UIService::chat
\* fail
C39_TitleStreamErrorDropped ==
    [][ (ui_pc = "collect" /\ title_received < Len(title_sent)
            /\ title_sent[title_received + 1] = ErrorEvent
            /\ title_received' = title_received + 1)
            => (ui_pc' = "collect" /\ complete_response' = complete_response) ]_vars

=============================================================================
